---- MODULE Spec2Model ----
(***************************************************************************)
(* Idea Planner server (src/server/index.js): an Express API over one      *)
(* MongoDB collection of room documents, plus a change-stream backed SSE   *)
(* feed per (room, participant).                                           *)
(*                                                                         *)
(* Every route handler is an async function: it awaits findOne, runs its   *)
(* checks on the copy it read, awaits updateOne/deleteOne/insertOne and    *)
(* (for most routes) awaits a second findOne before it answers.  Each      *)
(* await is a point where other handlers run, so a handler is modelled as  *)
(* one action per store operation; the code between two awaits runs        *)
(* without interruption (single-threaded event loop) and belongs to the    *)
(* action of the store operation that precedes it.  Each store operation   *)
(* is atomic on its document, as MongoDB guarantees.                       *)
(***************************************************************************)
EXTENDS Integers, Sequences, FiniteSets, TLC

VARIABLES
    rooms,      \* roomsCollection: the set of room documents
    oplog,      \* the collection's committed changes, in commit order
    reqs,       \* request slot -> the handler running in it
    chans,      \* SSE channel -> its state (GET /api/rooms/:code/stream)
    nextId,     \* generateId(): the next fresh uuid
    nextOid,    \* the next fresh ObjectId (_id of an inserted document)
    clock,      \* the value new Date() returns
    nops        \* requests accepted so far (bounds the exploration)

vars == <<rooms, oplog, reqs, chans, nextId, nextOid, clock, nops>>

----------------------------------------------------------------------------
(* Bounds of the exploration *)

MaxInflight == 2      \* request handlers running at the same time
MaxChans == 2         \* SSE channels
MaxClock == 2         \* largest value of the clock

(* Program constants *)

MaxAttempts == 5      \* createRoomDocument: attempt < 5
IdeaQuota == 3        \* participantIdeaCount >= 3

PHASES == {"ideate", "ended"}

(* Inputs *)

Slots == 1..MaxInflight
ChanIds == 1..MaxChans
Codes == {"AAAAA", "BBBBB"}         \* what generateRoomCode() may return
Names == {"Alex", "Sam", "sam"}     \* names given to create / join

----------------------------------------------------------------------------
(* Values *)

NoRoom == [oid |-> 0]               \* findOne's null

NoRes == [status |-> 0, message |-> "", room |-> NoRoom]

Idle == [op |-> "idle", pc |-> "idle", code |-> "", pid |-> 0, target |-> 0,
         name |-> "", phase |-> "", room |-> NoRoom, newId |-> 0, now |-> 0,
         endsAt |-> 0, attempt |-> 0, res |-> NoRes]

NoChan == [st |-> "none", oid |-> 0, pid |-> 0, latestAdminName |-> "",
           since |-> 0, pos |-> 0, inbox |-> <<>>, events |-> <<>>, status |-> 0,
           code |-> "", client |-> "here", fault |-> "",
           es |-> "none", seen |-> 0, shown |-> NoRoom, notice |-> "",
           latestHost |-> "the host"]

\* (a comparison of names that keeps their case)
keepCase(name) == name

\* String.prototype.toLowerCase on the names in use
toLowerCase(name) == IF name = "Sam" THEN "sam"
                     ELSE IF name = "Alex" THEN "alex"
                     ELSE name

SeqToSet(s) == {s[i] : i \in 1..Len(s)}

----------------------------------------------------------------------------
(* The store *)

\* (a query that leaves the code out of its filter)
findOneAnyCode(code) ==
    IF rooms # {} THEN CHOOSE d \in rooms : TRUE ELSE NoRoom

findOneByCode(code) ==
    IF \E d \in rooms : d.code = code
    THEN CHOOSE d \in rooms : d.code = code
    ELSE NoRoom

findOneById(oid) ==
    IF \E d \in rooms : d.oid = oid
    THEN CHOOSE d \in rooms : d.oid = oid
    ELSE NoRoom

\* (a collection without the unique index on code)
DuplicateKeyNoIndex(code) == FALSE

\* The unique index on code: insertOne fails with error 11000 on a duplicate
DuplicateKey(code) == \E d \in rooms : d.code = code

\* The collection after a document matched by _id is replaced by its update
Replace(old, new) == (rooms \ {old}) \cup {new}

\* An entry of the change feed.  An insert carries the inserted document; an
\* update or a delete carries the document key only.
Change(type, oid, doc) == [type |-> type, oid |-> oid, doc |-> doc]

\* updateOne on the matched document cur: an update that changes nothing
\* (modifiedCount 0) writes nothing and is no change of the feed.
Update(cur, new) ==
    IF new = cur
    THEN UNCHANGED <<rooms, oplog>>
    ELSE /\ rooms' = Replace(cur, new)
         /\ oplog' = Append(oplog, Change("update", cur.oid, NoRoom))

\* (an admission check that lets every id through)
HasParticipantAlways(room, pid) == TRUE

\* (room.participants ?? []).find((participant) => participant.id === participantId)
HasParticipant(room, pid) == \E i \in 1..Len(room.participants) : room.participants[i].id = pid

ensureParticipant(room, pid) ==
    CHOOSE p \in SeqToSet(room.participants) : p.id = pid

isAdminParticipant(p) == p.role = "admin"

\* (a host lookup that takes the newest participant for the host)
HostIdLast(room) ==
    IF room.participants # <<>>
    THEN room.participants[Len(room.participants)].id
    ELSE 0

\* (room.participants ?? []).find(isAdminParticipant)?.id
HostId(room) ==
    IF \E i \in 1..Len(room.participants) : isAdminParticipant(room.participants[i])
    THEN LET i == CHOOSE i \in 1..Len(room.participants) :
                    /\ isAdminParticipant(room.participants[i])
                    /\ \A j \in 1..(i - 1) : ~isAdminParticipant(room.participants[j])
         IN room.participants[i].id
    ELSE 0

HasIdea(room, ideaId) == \E i \in 1..Len(room.ideas) : room.ideas[i].id = ideaId

\* the position the positional operator ideas.$ resolves to: the first match
IdeaIndex(room, ideaId) ==
    CHOOSE i \in 1..Len(room.ideas) :
        /\ room.ideas[i].id = ideaId
        /\ \A j \in 1..(i - 1) : room.ideas[j].id # ideaId

formatRoom(roomDoc) ==
    [id |-> roomDoc.oid, code |-> roomDoc.code, adminName |-> roomDoc.adminName,
     participants |-> roomDoc.participants, updatedAt |-> roomDoc.updatedAt,
     phase |-> roomDoc.phase, phaseEndsAt |-> roomDoc.phaseEndsAt,
     ideas |-> roomDoc.ideas]

----------------------------------------------------------------------------
(* Request slots *)

Free(s) == reqs[s].pc \in {"idle", "done"}

\* a new request takes the lowest free slot
Accept(s) == /\ Free(s)
             /\ \A t \in Slots : t < s => ~Free(t)

Reply(status, message, room) == [status |-> status, message |-> message, room |-> room]

Finish(s, r, status, message, room) ==
    reqs' = [reqs EXCEPT ![s] = [r EXCEPT !.pc = "done",
                                          !.res = Reply(status, message, room)]]

----------------------------------------------------------------------------
Init ==
    /\ rooms = {}
    /\ oplog = <<>>
    /\ reqs = [s \in Slots |-> Idle]
    /\ chans = [c \in ChanIds |-> NoChan]
    /\ nextId = 1
    /\ nextOid = 1
    /\ clock = 1
    /\ nops = 0

Tick ==
    /\ clock < MaxClock
    /\ clock' = clock + 1
    /\ UNCHANGED <<rooms, oplog, reqs, chans, nextId, nextOid, nops>>

----------------------------------------------------------------------------
(* POST /api/rooms *)

BeginCreate(s, adminName) ==
    /\ Accept(s)
    /\ reqs' = [reqs EXCEPT ![s] = [Idle EXCEPT !.op = "create", !.pc = "insert",
                                                !.name = adminName]]
    /\ nops' = nops + 1
    /\ UNCHANGED <<rooms, oplog, chans, nextId, nextOid, clock>>

\* (a document whose first participant is not given the admin role)
NewRoomDocPlainRole(oid, code, adminName, id, now) ==
    [oid |-> oid, code |-> code, adminName |-> adminName,
     participants |-> <<[id |-> id, name |-> adminName, role |-> "participant"]>>,
     phase |-> "ideate", phaseEndsAt |-> 0, ideas |-> <<>>, updatedAt |-> now]

NewRoomDoc(oid, code, adminName, id, now) ==
    [oid |-> oid, code |-> code, adminName |-> adminName,
     participants |-> <<[id |-> id, name |-> adminName, role |-> "admin"]>>,
     phase |-> "ideate", phaseEndsAt |-> 0, ideas |-> <<>>, updatedAt |-> now]

\* (a loop that makes one attempt more than the bound)
InsertAttemptOneMore(s, code) ==
    LET r == reqs[s]
        doc == NewRoomDoc(nextOid, code, r.name, nextId, clock)
    IN /\ r.op = "create" /\ r.pc = "insert"
       /\ nextId' = nextId + 1
       /\ IF ~DuplicateKey(code)
          THEN /\ rooms' = rooms \cup {doc}
               /\ oplog' = Append(oplog, Change("insert", doc.oid, doc))
               /\ nextOid' = nextOid + 1
               /\ Finish(s, [r EXCEPT !.room = doc, !.code = code],
                         201, "Room created successfully", formatRoom(doc))
          ELSE /\ UNCHANGED <<rooms, oplog, nextOid>>
               /\ IF r.attempt + 1 < MaxAttempts + 1
                  THEN reqs' = [reqs EXCEPT ![s].attempt = r.attempt + 1]
                  ELSE Finish(s, [r EXCEPT !.attempt = r.attempt + 1], 500,
                              "Unable to create room, please try again later", NoRoom)
       /\ UNCHANGED <<chans, clock, nops>>

\* one turn of createRoomDocument's loop: generate a code, insertOne
InsertAttempt(s, code) ==
    LET r == reqs[s]
        doc == NewRoomDoc(nextOid, code, r.name, nextId, clock)
    IN /\ r.op = "create" /\ r.pc = "insert"
       /\ nextId' = nextId + 1
       /\ IF ~DuplicateKey(code)
          THEN /\ rooms' = rooms \cup {doc}
               /\ oplog' = Append(oplog, Change("insert", doc.oid, doc))
               /\ nextOid' = nextOid + 1
               /\ Finish(s, [r EXCEPT !.room = doc, !.code = code],
                         201, "Room created successfully", formatRoom(doc))
          ELSE /\ UNCHANGED <<rooms, oplog, nextOid>>
               /\ IF r.attempt + 1 < MaxAttempts
                  THEN reqs' = [reqs EXCEPT ![s].attempt = r.attempt + 1]
                  ELSE Finish(s, [r EXCEPT !.attempt = r.attempt + 1], 500,
                              "Unable to create room, please try again later", NoRoom)
       /\ UNCHANGED <<chans, clock, nops>>

----------------------------------------------------------------------------
(* POST /api/rooms/join *)

\* (a name check that also matches the authors of the room's ideas)
alreadyKnownName(room, participantName) ==
    \/ \E i \in 1..Len(room.participants) :
          toLowerCase(room.participants[i].name) = toLowerCase(participantName)
    \/ \E i \in 1..Len(room.ideas) :
          toLowerCase(room.ideas[i].authorName) = toLowerCase(participantName)

alreadyParticipant(room, participantName) ==
    \E i \in 1..Len(room.participants) :
        toLowerCase(room.participants[i].name) = toLowerCase(participantName)

BeginJoin(s, code, participantName) ==
    LET room == findOneByCode(code)
        r == [Idle EXCEPT !.op = "join", !.code = code, !.name = participantName,
                          !.room = room]
    IN /\ Accept(s)
       /\ nops' = nops + 1
       /\ IF room = NoRoom
          THEN /\ Finish(s, r, 404, "Room not found", NoRoom)
               /\ UNCHANGED nextId
          ELSE IF alreadyParticipant(room, participantName)
          THEN /\ Finish(s, r, 200, "You are already in this room", formatRoom(room))
               /\ UNCHANGED nextId
          ELSE /\ reqs' = [reqs EXCEPT ![s] = [r EXCEPT !.pc = "update",
                                                        !.newId = nextId, !.now = clock]]
               /\ nextId' = nextId + 1
       /\ UNCHANGED <<rooms, oplog, chans, nextOid, clock>>

\* (a join that copies the host's role to the new participant)
PushParticipantAsAdmin(doc, p, now) ==
    [doc EXCEPT !.participants = Append(@, [p EXCEPT !.role = "admin"]),
                !.updatedAt = now]

\* $push: { participants: newParticipant }, $set: { updatedAt }
PushParticipant(doc, p, now) ==
    [doc EXCEPT !.participants = Append(@, p), !.updatedAt = now]

CommitJoin(s) ==
    LET r == reqs[s]
        p == [id |-> r.newId, name |-> r.name, role |-> "participant"]
        cur == findOneById(r.room.oid)
        local == [r.room EXCEPT !.participants = Append(@, p)]
    IN /\ r.op = "join" /\ r.pc = "update"
       /\ IF cur # NoRoom
          THEN Update(cur, PushParticipant(cur, p, r.now))
          ELSE UNCHANGED <<rooms, oplog>>
       /\ Finish(s, r, 200, "Joined room successfully", formatRoom(local))
       /\ UNCHANGED <<chans, nextId, nextOid, clock, nops>>

----------------------------------------------------------------------------
(* The second findOne of a mutation route, and its answer.  formatRoom(null) *)
(* throws, which the handler's catch turns into a 500.                      *)

OkStatus(op) == IF op = "idea" THEN 201 ELSE 200

OkMessage(op) ==
    CASE op = "idea" -> "Idea captured"
      [] op = "vote" -> "Vote recorded"
      [] op = "detail" -> "Detail added"
      [] op = "phase" -> "Phase updated"
      [] OTHER -> ""

FailMessage(op) ==
    CASE op = "idea" -> "Unable to add idea"
      [] op = "vote" -> "Unable to vote for idea"
      [] op = "detail" -> "Unable to add detail"
      [] op = "phase" -> "Unable to update phase"
      [] OTHER -> ""

Reread(s) ==
    LET r == reqs[s]
        updatedRoom == findOneById(r.room.oid)
    IN /\ r.pc = "reread"
       /\ IF updatedRoom = NoRoom
          THEN Finish(s, r, 500, FailMessage(r.op), NoRoom)
          ELSE Finish(s, r, OkStatus(r.op), OkMessage(r.op), formatRoom(updatedRoom))
       /\ UNCHANGED <<rooms, oplog, chans, nextId, nextOid, clock, nops>>

----------------------------------------------------------------------------
(* POST /api/rooms/:code/ideas *)

\* (room.ideas ?? []).filter((idea) => idea.authorId === participantId).length
participantIdeaCount(room, participantId) ==
    Cardinality({i \in 1..Len(room.ideas) : room.ideas[i].authorId = participantId})

BeginAddIdea(s, code, participantId) ==
    LET room == findOneByCode(code)
        r == [Idle EXCEPT !.op = "idea", !.code = code, !.pid = participantId,
                          !.room = room]
    IN /\ Accept(s)
       /\ nops' = nops + 1
       /\ IF room = NoRoom
          THEN /\ Finish(s, r, 404, "Room not found", NoRoom)
               /\ UNCHANGED nextId
          ELSE IF ~HasParticipant(room, participantId)
          THEN /\ Finish(s, r, 403, "You are not part of this room", NoRoom)
               /\ UNCHANGED nextId
          ELSE IF room.phase = "ended"
          THEN /\ Finish(s, r, 400, "Session ended, details locked", NoRoom)
               /\ UNCHANGED nextId
          ELSE IF /\ ensureParticipant(room, participantId).role # "admin"
                  /\ participantIdeaCount(room, participantId) >= IdeaQuota
          THEN /\ Finish(s, r, 400, "You already submitted 3 ideas", NoRoom)
               /\ UNCHANGED nextId
          ELSE /\ reqs' = [reqs EXCEPT ![s] = [r EXCEPT !.pc = "update",
                                                        !.newId = nextId, !.now = clock]]
               /\ nextId' = nextId + 1
       /\ UNCHANGED <<rooms, oplog, chans, nextOid, clock>>

\* $push: { ideas: idea }, $set: { updatedAt }
PushIdea(doc, idea, now) ==
    [doc EXCEPT !.ideas = Append(@, idea), !.updatedAt = now]

CommitAddIdea(s) ==
    LET r == reqs[s]
        idea == [id |-> r.newId, authorId |-> r.pid,
                 authorName |-> ensureParticipant(r.room, r.pid).name,
                 votes |-> <<>>, details |-> <<>>]
        cur == findOneById(r.room.oid)
    IN /\ r.op = "idea" /\ r.pc = "update"
       /\ IF cur # NoRoom
          THEN Update(cur, PushIdea(cur, idea, r.now))
          ELSE UNCHANGED <<rooms, oplog>>
       /\ reqs' = [reqs EXCEPT ![s].pc = "reread"]
       /\ UNCHANGED <<chans, nextId, nextOid, clock, nops>>

----------------------------------------------------------------------------
(* POST /api/rooms/:code/ideas/:ideaId/vote *)

\* (a handler without the check of the idea's votes)
AlreadyVotedNever(room, ideaId, participantId) == FALSE

\* (idea.votes ?? []).includes(participantId)
AlreadyVoted(room, ideaId, participantId) ==
    participantId \in SeqToSet(room.ideas[IdeaIndex(room, ideaId)].votes)

\* (a handler that leaves out the membership check)
BeginVoteNoMemberCheck(s, code, participantId, ideaId) ==
    LET room == findOneByCode(code)
        r == [Idle EXCEPT !.op = "vote", !.code = code, !.pid = participantId,
                          !.target = ideaId, !.room = room]
    IN /\ Accept(s)
       /\ nops' = nops + 1
       /\ IF room = NoRoom
          THEN Finish(s, r, 404, "Room not found", NoRoom)
          ELSE IF room.phase = "ended"
          THEN Finish(s, r, 400, "Voting closed", NoRoom)
          ELSE IF ~HasIdea(room, ideaId)
          THEN Finish(s, r, 404, "Idea not found", NoRoom)
          ELSE IF AlreadyVoted(room, ideaId, participantId)
          THEN Finish(s, r, 400, "You already voted on this idea", NoRoom)
          ELSE reqs' = [reqs EXCEPT ![s] = [r EXCEPT !.pc = "update", !.now = clock]]
       /\ UNCHANGED <<rooms, oplog, chans, nextId, nextOid, clock>>

BeginVote(s, code, participantId, ideaId) ==
    LET room == findOneByCode(code)
        r == [Idle EXCEPT !.op = "vote", !.code = code, !.pid = participantId,
                          !.target = ideaId, !.room = room]
    IN /\ Accept(s)
       /\ nops' = nops + 1
       /\ IF room = NoRoom
          THEN Finish(s, r, 404, "Room not found", NoRoom)
          ELSE IF ~HasParticipant(room, participantId)
          THEN Finish(s, r, 403, "You are not part of this room", NoRoom)
          ELSE IF room.phase = "ended"
          THEN Finish(s, r, 400, "Voting closed", NoRoom)
          ELSE IF ~HasIdea(room, ideaId)
          THEN Finish(s, r, 404, "Idea not found", NoRoom)
          ELSE IF AlreadyVoted(room, ideaId, participantId)
          THEN Finish(s, r, 400, "You already voted on this idea", NoRoom)
          ELSE reqs' = [reqs EXCEPT ![s] = [r EXCEPT !.pc = "update", !.now = clock]]
       /\ UNCHANGED <<rooms, oplog, chans, nextId, nextOid, clock>>

\* (a write of the ideas array as computed from the copy the handler read)
PushVoteFromCopy(doc, r) ==
    [doc EXCEPT !.ideas = [r.room.ideas EXCEPT
                              ![IdeaIndex(r.room, r.target)].votes = Append(@, r.pid)],
                !.updatedAt = r.now]

\* $push: { 'ideas.$.votes': participantId }, $set: { updatedAt }, on the
\* document in the store
PushVote(doc, r) ==
    [doc EXCEPT !.ideas[IdeaIndex(doc, r.target)].votes = Append(@, r.pid),
                !.updatedAt = r.now]

\* updateOne({ _id: room._id, 'ideas.id': ideaId }, ...)
CommitVote(s) ==
    LET r == reqs[s]
        cur == findOneById(r.room.oid)
    IN /\ r.op = "vote" /\ r.pc = "update"
       /\ IF cur # NoRoom /\ HasIdea(cur, r.target)
          THEN Update(cur, PushVote(cur, r))
          ELSE UNCHANGED <<rooms, oplog>>
       /\ reqs' = [reqs EXCEPT ![s].pc = "reread"]
       /\ UNCHANGED <<chans, nextId, nextOid, clock, nops>>

----------------------------------------------------------------------------
(* POST /api/rooms/:code/phase *)

BeginPhase(s, code, adminId, requestedPhase, phaseEndsAt) ==
    LET room == findOneByCode(code)
        r == [Idle EXCEPT !.op = "phase", !.code = code, !.pid = adminId,
                          !.phase = requestedPhase, !.endsAt = phaseEndsAt,
                          !.room = room]
    IN /\ Accept(s)
       /\ nops' = nops + 1
       /\ IF requestedPhase \notin PHASES
          THEN Finish(s, [r EXCEPT !.room = NoRoom], 400,
                      "Valid phase and admin id are required", NoRoom)
          ELSE IF room = NoRoom
          THEN Finish(s, r, 404, "Room not found", NoRoom)
          ELSE IF HostId(room) # adminId
          THEN Finish(s, r, 403, "Only the host can change the phase", NoRoom)
          ELSE reqs' = [reqs EXCEPT ![s] = [r EXCEPT !.pc = "update", !.now = clock]]
       /\ UNCHANGED <<rooms, oplog, chans, nextId, nextOid, clock>>

\* (an update that leaves the phase out of its $set)
SetPhaseEndsAtOnly(doc, r) ==
    [doc EXCEPT !.phaseEndsAt = r.endsAt, !.updatedAt = r.now]

\* $set: { phase, phaseEndsAt, updatedAt }
SetPhase(doc, r) ==
    [doc EXCEPT !.phase = r.phase, !.phaseEndsAt = r.endsAt, !.updatedAt = r.now]

CommitPhase(s) ==
    LET r == reqs[s]
        cur == findOneById(r.room.oid)
    IN /\ r.op = "phase" /\ r.pc = "update"
       /\ IF cur # NoRoom
          THEN Update(cur, SetPhase(cur, r))
          ELSE UNCHANGED <<rooms, oplog>>
       /\ reqs' = [reqs EXCEPT ![s].pc = "reread"]
       /\ UNCHANGED <<chans, nextId, nextOid, clock, nops>>

----------------------------------------------------------------------------
(* DELETE /api/rooms/:code *)

BeginEnd(s, code, adminId) ==
    LET room == findOneByCode(code)
        r == [Idle EXCEPT !.op = "end", !.code = code, !.pid = adminId, !.room = room]
    IN /\ Accept(s)
       /\ nops' = nops + 1
       /\ IF room = NoRoom
          THEN Finish(s, r, 404, "Room not found", NoRoom)
          ELSE IF HostId(room) # adminId
          THEN Finish(s, r, 403, "Only the host can end this room", NoRoom)
          ELSE reqs' = [reqs EXCEPT ![s] = [r EXCEPT !.pc = "delete"]]
       /\ UNCHANGED <<rooms, oplog, chans, nextId, nextOid, clock>>

\* deleteOne({ _id: room._id })
CommitEnd(s) ==
    LET r == reqs[s]
        cur == findOneById(r.room.oid)
    IN /\ r.op = "end" /\ r.pc = "delete"
       /\ IF cur # NoRoom
          THEN /\ rooms' = rooms \ {cur}
               /\ oplog' = Append(oplog, Change("delete", cur.oid, NoRoom))
          ELSE UNCHANGED <<rooms, oplog>>
       /\ Finish(s, r, 200, "Room ended and removed", NoRoom)
       /\ UNCHANGED <<chans, nextId, nextOid, clock, nops>>

----------------------------------------------------------------------------
(* DELETE /api/rooms/:code/participants/:participantId *)

BeginRemove(s, code, adminId, participantId) ==
    LET room == findOneByCode(code)
        r == [Idle EXCEPT !.op = "remove", !.code = code, !.pid = adminId,
                          !.target = participantId, !.room = room]
    IN /\ Accept(s)
       /\ nops' = nops + 1
       /\ IF room = NoRoom
          THEN Finish(s, r, 404, "Room not found", NoRoom)
          ELSE IF HostId(room) # adminId
          THEN Finish(s, r, 403, "Only the host can remove participants", NoRoom)
          ELSE IF participantId = adminId
          THEN Finish(s, r, 400, "Host cannot remove themselves here", NoRoom)
          ELSE reqs' = [reqs EXCEPT ![s] = [r EXCEPT !.pc = "update", !.now = clock]]
       /\ UNCHANGED <<rooms, oplog, chans, nextId, nextOid, clock>>

\* (a removal that also drops the ideas the participant wrote)
PullParticipantAndIdeas(doc, r) ==
    LET Others(p) == p.id # r.target
        ByOthers(idea) == idea.authorId # r.target
    IN [doc EXCEPT !.participants = SelectSeq(@, Others),
                   !.ideas = SelectSeq(@, ByOthers),
                   !.updatedAt = r.now]

\* $pull: { participants: { id: participantId } }, $set: { updatedAt }
PullParticipant(doc, r) ==
    LET Others(p) == p.id # r.target
    IN [doc EXCEPT !.participants = SelectSeq(@, Others), !.updatedAt = r.now]

CommitRemove(s) ==
    LET r == reqs[s]
        cur == findOneById(r.room.oid)
        modifiedCount == IF cur # NoRoom /\ PullParticipant(cur, r) # cur THEN 1 ELSE 0
    IN /\ r.op = "remove" /\ r.pc = "update"
       /\ IF cur # NoRoom
          THEN Update(cur, PullParticipant(cur, r))
          ELSE UNCHANGED <<rooms, oplog>>
       /\ IF modifiedCount = 0
          THEN Finish(s, r, 404, "Participant not found in room", NoRoom)
          ELSE Finish(s, r, 200, "Participant removed", NoRoom)
       /\ UNCHANGED <<chans, nextId, nextOid, clock, nops>>

----------------------------------------------------------------------------
(* GET /api/rooms/:code/stream *)

\* What sendEvent writes.  asOf and at are not part of the payload: asOf is the
\* number of committed changes when the snapshot was read, at is the position
\* in the feed of the change the event reports (0 for init).
Event(type, room, adminName, asOf, at) ==
    [type |-> type, room |-> room, adminName |-> adminName, asOf |-> asOf, at |-> at]

\* The client goes away while its request waits for findOne: the socket's
\* close event fires before req.on('close', ...) is registered, so no handler
\* runs for it, then or later.
EarlyClose(c) ==
    /\ chans[c].st = "none"
    /\ chans[c].client = "here"
    /\ \A d \in ChanIds : d < c => chans[d].st # "none"
    /\ chans' = [chans EXCEPT ![c].client = "gone"]
    /\ UNCHANGED <<rooms, oplog, reqs, nextId, nextOid, clock, nops>>

\* findOne, the admission checks, the init event, and the registration of the
\* change, error and close handlers: one synchronous run after the await.
\* Channels are numbered in the order they are opened.
OpenStream(c, code, participantId) ==
    LET room == findOneByCode(code)
        new == [NoChan EXCEPT !.code = code, !.pid = participantId,
                              !.client = chans[c].client,
                              !.es = chans[c].es, !.seen = chans[c].seen,
                              !.shown = chans[c].shown, !.notice = chans[c].notice,
                              !.latestHost = chans[c].latestHost]
    IN /\ chans[c].st = "none"
       /\ \A d \in ChanIds : d < c => chans[d].st # "none"
       /\ chans' = [chans EXCEPT ![c] =
            IF room = NoRoom
            THEN [new EXCEPT !.st = "refused", !.status = 404]
            ELSE IF ~HasParticipant(room, participantId)
            THEN [new EXCEPT !.st = "refused", !.status = 403]
            ELSE [new EXCEPT !.st = "attached", !.oid = room.oid,
                             !.latestAdminName = room.adminName,
                             !.events = <<Event("init", formatRoom(room), "",
                                                Len(oplog), 0)>>]]
       /\ UNCHANGED <<rooms, oplog, reqs, nextId, nextOid, clock, nops>>

\* roomsCollection.watch(pipeline, ...): the store opens the cursor when the
\* command reaches it, and the stream reports the changes committed from
\* then on (no resume token and no start time are given).
WatchStart(c) ==
    /\ chans[c].st = "attached"
    /\ chans' = [chans EXCEPT ![c].st = "watching",
                              ![c].since = Len(oplog) + 1,
                              ![c].pos = Len(oplog) + 1]
    /\ UNCHANGED <<rooms, oplog, reqs, nextId, nextOid, clock, nops>>

\* fullDocument of a change: the inserted document of an insert; with
\* { fullDocument: 'updateLookup' } the document as it is when the update is
\* looked up, null when it is gone; a delete has none.
FullDocument(e) ==
    CASE e.type = "insert" -> e.doc
      [] e.type = "update" -> findOneById(e.oid)
      [] OTHER -> NoRoom

\* (a pipeline without the $match on the room's _id)
MatchesPipelineAnyRoom(e, oid) == FullDocument(e) # NoRoom

\* pipeline: [{ $match: { 'fullDocument._id': room._id } }]
MatchesPipeline(e, oid) ==
    /\ FullDocument(e) # NoRoom
    /\ FullDocument(e).oid = oid

\* (a stream that hands the newest change to the handler first)
EnqueueFront(inbox, change) == <<change>> \o inbox

\* the changes that passed the pipeline wait for the handler in feed order
Enqueue(inbox, change) == Append(inbox, change)

\* The store evaluates the next change of the feed for this stream.
Lookup(c) ==
    LET ch == chans[c]
        e == oplog[ch.pos]
        change == [operationType |-> e.type, fullDocument |-> FullDocument(e),
                   asOf |-> Len(oplog), at |-> ch.pos]
    IN /\ ch.st = "watching"
       /\ ch.pos <= Len(oplog)
       /\ chans' = [chans EXCEPT ![c].pos = ch.pos + 1,
                                 ![c].inbox = IF MatchesPipeline(e, ch.oid)
                                              THEN Enqueue(ch.inbox, change)
                                              ELSE ch.inbox]
       /\ UNCHANGED <<rooms, oplog, reqs, nextId, nextOid, clock, nops>>

\* changeStream.on('change', ...)
OnChange(c) ==
    LET ch == chans[c]
        change == Head(ch.inbox)
    IN /\ ch.st = "watching"
       /\ ch.inbox # <<>>
       /\ chans' = [chans EXCEPT ![c] =
            IF change.operationType = "delete"
            THEN [ch EXCEPT !.events = Append(@, Event("closed", NoRoom,
                                                       ch.latestAdminName,
                                                       change.asOf, change.at)),
                            !.inbox = <<>>,
                            !.st = "ended"]
            ELSE IF change.fullDocument # NoRoom
            THEN [ch EXCEPT !.latestAdminName = change.fullDocument.adminName,
                            !.events = Append(@, Event("update",
                                                       formatRoom(change.fullDocument),
                                                       "", change.asOf, change.at)),
                            !.inbox = Tail(ch.inbox)]
            ELSE [ch EXCEPT !.inbox = Tail(ch.inbox)]]
       /\ UNCHANGED <<rooms, oplog, reqs, nextId, nextOid, clock, nops>>

\* (a close handler that closes the change streams of every channel)
DisconnectAll(c) ==
    /\ chans[c].st \in {"attached", "watching"}
    /\ chans[c].client = "here"
    /\ chans' = [d \in ChanIds |->
                    IF d = c
                    THEN [chans[d] EXCEPT !.st = "gone", !.inbox = <<>>, !.client = "gone"]
                    ELSE IF chans[d].st \in {"attached", "watching"}
                    THEN [chans[d] EXCEPT !.st = "gone", !.inbox = <<>>]
                    ELSE chans[d]]
    /\ UNCHANGED <<rooms, oplog, reqs, nextId, nextOid, clock, nops>>

\* req.on('close', ...): the client went away; changeStream.close()
Disconnect(c) ==
    /\ chans[c].st \in {"attached", "watching"}
    /\ chans[c].client = "here"
    /\ chans' = [chans EXCEPT ![c].st = "gone", ![c].inbox = <<>>,
                              ![c].client = "gone"]
    /\ UNCHANGED <<rooms, oplog, reqs, nextId, nextOid, clock, nops>>

\* (an error handler that reports the error and leaves the stream open)
StreamErrorKeepOpen(c, kind) ==
    /\ chans[c].st \in {"attached", "watching"}
    /\ chans[c].fault = ""
    /\ chans' = [chans EXCEPT ![c].events = Append(@, Event("error", NoRoom, "",
                                                            Len(oplog), 0)),
                              ![c].fault = kind]
    /\ UNCHANGED <<rooms, oplog, reqs, nextId, nextOid, clock, nops>>

\* changeStream.on('error', ...): the stream reports an error, whatever its
\* kind; the handler does not look at it.  The error may come while the
\* cursor is still being opened.
StreamError(c, kind) ==
    /\ chans[c].st \in {"attached", "watching"}
    /\ chans' = [chans EXCEPT ![c].events = Append(@, Event("error", NoRoom, "",
                                                            Len(oplog), 0)),
                              ![c].inbox = <<>>,
                              ![c].st = "broken",
                              ![c].fault = kind]
    /\ UNCHANGED <<rooms, oplog, reqs, nextId, nextOid, clock, nops>>

----------------------------------------------------------------------------
(* GET /api/rooms/:code *)

GetRoom(s, code) ==
    LET room == findOneByCode(code)
        r == [Idle EXCEPT !.op = "get", !.code = code, !.room = room]
    IN /\ Accept(s)
       /\ nops' = nops + 1
       /\ IF room = NoRoom
          THEN Finish(s, r, 404, "Room not found", NoRoom)
          ELSE Finish(s, r, 200, "", formatRoom(room))
       /\ UNCHANGED <<rooms, oplog, chans, nextId, nextOid, clock>>

----------------------------------------------------------------------------
(* POST /api/rooms/:code/ideas/:ideaId/details *)

BeginDetail(s, code, participantId, ideaId) ==
    LET room == findOneByCode(code)
        r == [Idle EXCEPT !.op = "detail", !.code = code, !.pid = participantId,
                          !.target = ideaId, !.room = room]
    IN /\ Accept(s)
       /\ nops' = nops + 1
       /\ IF room = NoRoom
          THEN /\ Finish(s, r, 404, "Room not found", NoRoom)
               /\ UNCHANGED nextId
          ELSE IF ~HasParticipant(room, participantId)
          THEN /\ Finish(s, r, 403, "You are not part of this room", NoRoom)
               /\ UNCHANGED nextId
          ELSE /\ reqs' = [reqs EXCEPT ![s] = [r EXCEPT !.pc = "update",
                                                        !.newId = nextId, !.now = clock]]
               /\ nextId' = nextId + 1
       /\ UNCHANGED <<rooms, oplog, chans, nextOid, clock>>

\* (a write that sets the idea's details to the new detail alone)
PushDetailReplace(doc, r, detail) ==
    [doc EXCEPT !.ideas[IdeaIndex(doc, r.target)].details = <<detail>>,
                !.updatedAt = r.now]

\* (a write that puts the new detail in front of the others)
PushDetailFront(doc, r, detail) ==
    [doc EXCEPT !.ideas[IdeaIndex(doc, r.target)].details = <<detail>> \o @,
                !.updatedAt = r.now]

\* $push: { 'ideas.$.details': detail }, $set: { updatedAt }
PushDetail(doc, r, detail) ==
    [doc EXCEPT !.ideas[IdeaIndex(doc, r.target)].details = Append(@, detail),
                !.updatedAt = r.now]

\* updateOne({ _id: room._id, 'ideas.id': ideaId }, ...)
CommitDetail(s) ==
    LET r == reqs[s]
        detail == [id |-> r.newId, authorId |-> r.pid,
                   authorName |-> ensureParticipant(r.room, r.pid).name]
        cur == findOneById(r.room.oid)
    IN /\ r.op = "detail" /\ r.pc = "update"
       /\ IF cur # NoRoom /\ HasIdea(cur, r.target)
          THEN Update(cur, PushDetail(cur, r, detail))
          ELSE UNCHANGED <<rooms, oplog>>
       /\ reqs' = [reqs EXCEPT ![s].pc = "reread"]
       /\ UNCHANGED <<chans, nextId, nextOid, clock, nops>>

----------------------------------------------------------------------------
(* The room page of the client (src/unnamed/part_001): the effect that      *)
(* opens an EventSource on the room's stream and its onmessage handler.     *)
(* A channel record holds both ends of one connection: the server's side    *)
(* above and the EventSource with the page's state (room, modalNotice,      *)
(* latestHost) as it is while that EventSource is the page's current one.   *)

\* the effect body: new EventSource(streamUrl); the page's state is the one
\* the previous run of the effect left
ClientSubscribe(c, participantId) ==
    /\ chans[c].st = "none" /\ chans[c].es = "none"
    /\ \A d \in ChanIds : d < c => chans[d].es = "stale"
    /\ chans' = [chans EXCEPT
          ![c].es = "open",
          ![c].pid = IF c = 1 THEN participantId ELSE chans[c - 1].pid,
          ![c].shown = IF c = 1 THEN NoRoom ELSE chans[c - 1].shown,
          ![c].notice = IF c = 1 THEN "" ELSE chans[c - 1].notice,
          ![c].latestHost = IF c = 1 THEN "the host" ELSE chans[c - 1].latestHost]
    /\ UNCHANGED <<rooms, oplog, reqs, nextId, nextOid, clock, nops>>

\* (a handler that shows the snapshot before it looks for the participant)
onmessageShowFirst(cl, payload) ==
    LET hasRoom == payload.type \in {"init", "update"}
        host == IF hasRoom /\ payload.room.adminName # ""
                THEN payload.room.adminName ELSE cl.latestHost
        next == [cl EXCEPT !.seen = @ + 1, !.latestHost = host]
        rerun == IF host # cl.latestHost THEN "stale" ELSE cl.es
    IN IF payload.type = "closed"
       THEN [next EXCEPT !.notice = "Room ended", !.es = "closed"]
       ELSE IF hasRoom
       THEN IF cl.pid \notin {payload.room.participants[i].id :
                                i \in 1..Len(payload.room.participants)}
            THEN [next EXCEPT !.shown = payload.room,
                              !.notice = "Removed from room", !.es = "closed"]
            ELSE [next EXCEPT !.shown = payload.room, !.es = rerun]
       ELSE [next EXCEPT !.es = rerun]

\* eventSource.onmessage: setLatestHost; on closed, or on a snapshot without
\* the session's participant, setModalNotice, eventSource.close() and return;
\* otherwise setRoom.  A change of latestHost makes the effect run again: its
\* cleanup closes this EventSource and a new one is opened, unless the
\* handler has closed it for good.
onmessage(cl, payload) ==
    LET hasRoom == payload.type \in {"init", "update"}
        host == IF hasRoom /\ payload.room.adminName # ""
                THEN payload.room.adminName ELSE cl.latestHost
        next == [cl EXCEPT !.seen = @ + 1, !.latestHost = host]
        rerun == IF host # cl.latestHost THEN "stale" ELSE cl.es
    IN IF payload.type = "closed"
       THEN [next EXCEPT !.notice = "Room ended", !.es = "closed"]
       ELSE IF hasRoom
       THEN IF cl.pid \notin {payload.room.participants[i].id :
                                i \in 1..Len(payload.room.participants)}
            THEN [next EXCEPT !.notice = "Removed from room", !.es = "closed"]
            ELSE [next EXCEPT !.shown = payload.room, !.es = rerun]
       ELSE [next EXCEPT !.es = rerun]

\* the next event the server wrote reaches the open EventSource
ClientOnMessage(c) ==
    /\ chans[c].es = "open"
    /\ chans[c].seen < Len(chans[c].events)
    /\ chans' = [chans EXCEPT ![c] = onmessage(@, @.events[@.seen + 1])]
    /\ UNCHANGED <<rooms, oplog, reqs, nextId, nextOid, clock, nops>>

----------------------------------------------------------------------------
(* addAction(code, participantId, ideaId, ...).  The server file has no     *)
(* route for it (the older client posts to /ideas/:ideaId/actions), so the  *)
(* operation is modelled from the specification's section 4.1: one atomic   *)
(* update of the room document, Forbidden unless the participant is the     *)
(* admin, IdeaNotFound if the idea is absent, and an ActionItem with        *)
(* completed = false appended to the idea's actions.                        *)

\* the actions of an idea; ideas are stored without the field until the
\* first action is pushed
ActionsOf(idea) == IF "actions" \in DOMAIN idea THEN idea.actions ELSE <<>>

\* the idea with one more action at the end of its actions
WithAction(idea, action) ==
    [f \in DOMAIN idea \cup {"actions"} |->
        IF f = "actions" THEN Append(ActionsOf(idea), action) ELSE idea[f]]

PushAction(doc, r, action) ==
    [doc EXCEPT !.ideas[IdeaIndex(doc, r.target)] = WithAction(@, action),
                !.updatedAt = clock]

\* (an addAction that admits every member of the room)
AddActionByAnyMember(s, code, participantId, ideaId) ==
    LET room == findOneByCode(code)
        r == [Idle EXCEPT !.op = "action", !.code = code, !.pid = participantId,
                          !.target = ideaId, !.room = room, !.newId = nextId,
                          !.now = clock]
    IN /\ Accept(s)
       /\ nops' = nops + 1
       /\ IF room = NoRoom
          THEN /\ Finish(s, r, 404, "RoomNotFound", NoRoom)
               /\ UNCHANGED <<rooms, oplog, nextId>>
          ELSE IF ~HasParticipant(room, participantId)
          THEN /\ Finish(s, r, 403, "Forbidden", NoRoom)
               /\ UNCHANGED <<rooms, oplog, nextId>>
          ELSE IF ~HasIdea(room, ideaId)
          THEN /\ Finish(s, r, 404, "IdeaNotFound", NoRoom)
               /\ UNCHANGED <<rooms, oplog, nextId>>
          ELSE LET action == [id |-> nextId, completed |-> FALSE,
                              createdBy |-> participantId,
                              createdByName |-> ensureParticipant(room, participantId).name]
                   new == PushAction(room, r, action)
               IN /\ Update(room, new)
                  /\ Finish(s, r, 200, "Action added", formatRoom(new))
                  /\ nextId' = nextId + 1
       /\ UNCHANGED <<chans, nextOid, clock>>

AddAction(s, code, participantId, ideaId) ==
    LET room == findOneByCode(code)
        r == [Idle EXCEPT !.op = "action", !.code = code, !.pid = participantId,
                          !.target = ideaId, !.room = room, !.newId = nextId,
                          !.now = clock]
    IN /\ Accept(s)
       /\ nops' = nops + 1
       /\ IF room = NoRoom
          THEN /\ Finish(s, r, 404, "RoomNotFound", NoRoom)
               /\ UNCHANGED <<rooms, oplog, nextId>>
          ELSE IF \/ ~HasParticipant(room, participantId)
                  \/ ~isAdminParticipant(ensureParticipant(room, participantId))
          THEN /\ Finish(s, r, 403, "Forbidden", NoRoom)
               /\ UNCHANGED <<rooms, oplog, nextId>>
          ELSE IF ~HasIdea(room, ideaId)
          THEN /\ Finish(s, r, 404, "IdeaNotFound", NoRoom)
               /\ UNCHANGED <<rooms, oplog, nextId>>
          ELSE LET action == [id |-> nextId, completed |-> FALSE,
                              createdBy |-> participantId,
                              createdByName |-> ensureParticipant(room, participantId).name]
                   new == PushAction(room, r, action)
               IN /\ Update(room, new)
                  /\ Finish(s, r, 200, "Action added", formatRoom(new))
                  /\ nextId' = nextId + 1
       /\ UNCHANGED <<chans, nextOid, clock>>

----------------------------------------------------------------------------
(* Specifications.  Each explores the routes its claims are about, from the  *)
(* empty collection, with a bound on the number of requests accepted.       *)

MaxIdeaOps == 6
MaxVoteOps == 5
MaxStreamOps == 3
MaxCreateOps == 3

\* ids a client may send: every id handed out so far
KnownIds == 1..(nextId - 1)

\* the first room is created once
NoRoomYet == rooms = {} /\ \A s \in Slots : reqs[s].op # "create"

\* ideas: one room, its members and their idea submissions
NextIdeas ==
    \/ /\ nops < MaxIdeaOps
       /\ \E s \in Slots :
            \/ NoRoomYet /\ BeginCreate(s, "Alex")
            \/ \E code \in Codes : BeginJoin(s, code, "Sam")
            \/ \E pid \in KnownIds : BeginAddIdea(s, "AAAAA", pid)
    \/ \E s \in Slots :
            \/ InsertAttempt(s, "AAAAA")
            \/ CommitJoin(s)
            \/ CommitAddIdea(s)
            \/ Reread(s)
    \/ Tick

SpecIdeas == Init /\ [][NextIdeas]_vars

\* votes: one room, its ideas, the phase and the votes
NextVote ==
    \/ /\ nops < MaxVoteOps
       /\ \E s \in Slots :
            \/ NoRoomYet /\ BeginCreate(s, "Alex")
            \/ BeginJoin(s, "AAAAA", "Sam")
            \/ \E pid \in KnownIds : BeginAddIdea(s, "AAAAA", pid)
            \/ \E pid \in KnownIds, ideaId \in KnownIds : BeginVote(s, "AAAAA", pid, ideaId)
            \/ \E phase \in PHASES \cup {"planning"} : BeginPhase(s, "AAAAA", 1, phase, 0)
    \/ \E s \in Slots :
            \/ InsertAttempt(s, "AAAAA")
            \/ CommitJoin(s)
            \/ CommitAddIdea(s)
            \/ CommitVote(s)
            \/ CommitPhase(s)
            \/ Reread(s)
    \/ Tick

SpecVote == Init /\ [][NextVote]_vars

\* streams: one room, its roster, its end, and one SSE channel on it
FirstChan == {c \in ChanIds : c = 1}

NextStream ==
    \/ /\ nops < MaxStreamOps
       /\ \E s \in Slots :
            \/ NoRoomYet /\ BeginCreate(s, "Alex")
            \/ BeginJoin(s, "AAAAA", "Sam")
            \/ \E pid \in KnownIds : BeginRemove(s, "AAAAA", 1, pid)
            \/ BeginEnd(s, "AAAAA", 1)
    \/ \E s \in Slots :
            \/ InsertAttempt(s, "AAAAA")
            \/ CommitJoin(s)
            \/ CommitRemove(s)
            \/ CommitEnd(s)
    \/ \E c \in FirstChan :
            \/ \E pid \in KnownIds : OpenStream(c, "AAAAA", pid)
            \/ WatchStart(c)
            \/ Lookup(c)
            \/ OnChange(c)
            \/ Disconnect(c)
            \/ EarlyClose(c)
            \/ \E kind \in {"transient", "permanent"} : StreamError(c, kind)
    \/ Tick

SpecStream == Init /\ [][NextStream]_vars

\* what the event loop and the store do without being asked: a cursor that
\* is being opened gets opened, a committed change gets evaluated, a change
\* that was handed over gets handled
StreamProgress == \E c \in ChanIds : WatchStart(c) \/ Lookup(c) \/ OnChange(c)

SpecStreamLive == SpecStream /\ WF_vars(StreamProgress)

MaxFanoutOps == 3

\* fan-out: one room, its roster, and several SSE channels on it
NextFanout ==
    \/ /\ nops < MaxFanoutOps
       /\ \E s \in Slots :
            \/ NoRoomYet /\ BeginCreate(s, "Alex")
            \/ BeginJoin(s, "AAAAA", "Sam")
            \/ \E pid \in KnownIds : BeginRemove(s, "AAAAA", 1, pid)
    \/ \E s \in Slots :
            \/ InsertAttempt(s, "AAAAA")
            \/ CommitJoin(s)
            \/ CommitRemove(s)
    \/ \E c \in ChanIds :
            \/ \E pid \in KnownIds : OpenStream(c, "AAAAA", pid)
            \/ WatchStart(c)
            \/ Lookup(c)
            \/ OnChange(c)
            \/ Disconnect(c)
            \/ StreamError(c, "permanent")

SpecFanout == Init /\ [][NextFanout]_vars

MaxRemovedOps == 4

\* a removed participant's channel: one room, a join, a removal by the host,
\* ideas by any id, and one SSE channel
NextRemoved ==
    \/ /\ nops < MaxRemovedOps
       /\ \E s \in Slots :
            \/ NoRoomYet /\ BeginCreate(s, "Alex")
            \/ BeginJoin(s, "AAAAA", "Sam")
            \/ \E pid \in KnownIds : BeginRemove(s, "AAAAA", 1, pid)
            \/ \E pid \in KnownIds : BeginAddIdea(s, "AAAAA", pid)
    \/ \E s \in Slots :
            \/ InsertAttempt(s, "AAAAA")
            \/ CommitJoin(s)
            \/ CommitRemove(s)
            \/ CommitAddIdea(s)
            \/ Reread(s)
    \/ \E c \in FirstChan :
            \/ \E pid \in KnownIds : OpenStream(c, "AAAAA", pid)
            \/ WatchStart(c)
            \/ Lookup(c)
            \/ OnChange(c)
            \/ Disconnect(c)

SpecRemoved == Init /\ [][NextRemoved]_vars

MaxTwoRoomOps == 4

\* two rooms: creations, joins and ends by the host on both codes, and one
\* SSE channel opened by the host of either room
NextTwoRooms ==
    \/ /\ nops < MaxTwoRoomOps
       /\ \E s \in Slots :
            \/ BeginCreate(s, "Alex")
            \/ \E code \in Codes : BeginJoin(s, code, "Sam")
            \/ \E d \in rooms : BeginEnd(s, d.code, HostId(d))
    \/ \E s \in Slots :
            \/ \E code \in Codes : InsertAttempt(s, code)
            \/ CommitJoin(s)
            \/ CommitEnd(s)
    \/ \E c \in FirstChan :
            \/ \E d \in rooms : OpenStream(c, d.code, HostId(d))
            \/ WatchStart(c)
            \/ Lookup(c)
            \/ OnChange(c)

SpecTwoRooms == Init /\ [][NextTwoRooms]_vars

MaxClientOps == 4

\* the room page against the server: one room, a join, removals and an end
\* by the host, and the page's EventSources with the server's end of each
NextClient ==
    \/ /\ nops < MaxClientOps
       /\ \E s \in Slots :
            \/ NoRoomYet /\ BeginCreate(s, "Alex")
            \/ BeginJoin(s, "AAAAA", "Sam")
            \/ \E pid \in KnownIds : BeginRemove(s, "AAAAA", 1, pid)
            \/ BeginEnd(s, "AAAAA", 1)
    \/ \E s \in Slots :
            \/ InsertAttempt(s, "AAAAA")
            \/ CommitJoin(s)
            \/ CommitRemove(s)
            \/ CommitEnd(s)
    \/ \E c \in ChanIds :
            \/ \E pid \in KnownIds : ClientSubscribe(c, pid)
            \/ chans[c].es = "open" /\ OpenStream(c, "AAAAA", chans[c].pid)
            \/ WatchStart(c)
            \/ Lookup(c)
            \/ OnChange(c)
            \/ ClientOnMessage(c)
            \/ chans[c].es \in {"closed", "stale"} /\ Disconnect(c)

SpecClient == Init /\ [][NextClient]_vars

\* codes: rooms created and ended concurrently
NextCreate ==
    \/ /\ nops < MaxCreateOps
       /\ \E s \in Slots :
            \/ BeginCreate(s, "Alex")
            \/ \E d \in rooms : BeginEnd(s, d.code, HostId(d))
    \/ \E s \in Slots :
            \/ \E code \in Codes : InsertAttempt(s, code)
            \/ CommitEnd(s)
    \/ Tick

SpecCreate == Init /\ [][NextCreate]_vars

\* the continuation of an awaited insertOne runs once the store has answered
SpecCreateLive ==
    SpecCreate /\ \A s \in Slots : WF_vars(\E code \in Codes : InsertAttempt(s, code))

MaxRosterOps == 4
MaxRemovalOps == 5
MaxEndOps == 4

\* roster: one room, joins under several spellings of a name, and the
\* host-only routes called by every known id
NextRoster ==
    \/ /\ nops < MaxRosterOps
       /\ \E s \in Slots :
            \/ NoRoomYet /\ BeginCreate(s, "Alex")
            \/ \E name \in Names : BeginJoin(s, "AAAAA", name)
            \/ \E pid \in KnownIds, target \in KnownIds : BeginRemove(s, "AAAAA", pid, target)
            \/ \E pid \in KnownIds, phase \in PHASES \cup {"planning"} :
                    BeginPhase(s, "AAAAA", pid, phase, 0)
    \/ \E s \in Slots :
            \/ InsertAttempt(s, "AAAAA")
            \/ CommitJoin(s)
            \/ CommitRemove(s)
            \/ CommitPhase(s)
            \/ Reread(s)
    \/ Tick

SpecRoster == Init /\ [][NextRoster]_vars

\* removal: one room, a member's ideas, votes and details, and the member's
\* removal by the host
NextRemoval ==
    \/ /\ nops < MaxRemovalOps
       /\ \E s \in Slots :
            \/ NoRoomYet /\ BeginCreate(s, "Alex")
            \/ BeginJoin(s, "AAAAA", "Sam")
            \/ \E pid \in KnownIds : BeginAddIdea(s, "AAAAA", pid)
            \/ \E pid \in KnownIds, ideaId \in KnownIds : BeginVote(s, "AAAAA", pid, ideaId)
            \/ \E pid \in KnownIds, ideaId \in KnownIds : BeginDetail(s, "AAAAA", pid, ideaId)
            \/ \E target \in KnownIds : BeginRemove(s, "AAAAA", 1, target)
    \/ \E s \in Slots :
            \/ InsertAttempt(s, "AAAAA")
            \/ CommitJoin(s)
            \/ CommitAddIdea(s)
            \/ CommitVote(s)
            \/ CommitDetail(s)
            \/ CommitRemove(s)
            \/ Reread(s)

SpecRemoval == Init /\ [][NextRemoval]_vars

\* end: rooms created and ended, and every route called before and after
NextEnd ==
    \/ /\ nops < MaxEndOps
       /\ \E s \in Slots :
            \/ BeginCreate(s, "Alex")
            \/ \E code \in Codes : GetRoom(s, code)
            \/ \E code \in Codes : BeginJoin(s, code, "Sam")
            \/ \E code \in Codes, pid \in KnownIds : BeginEnd(s, code, pid)
            \/ \E pid \in KnownIds : BeginAddIdea(s, "AAAAA", pid)
            \/ \E pid \in KnownIds, ideaId \in KnownIds : BeginVote(s, "AAAAA", pid, ideaId)
            \/ \E pid \in KnownIds, ideaId \in KnownIds : BeginDetail(s, "AAAAA", pid, ideaId)
            \/ \E pid \in KnownIds, phase \in PHASES \cup {"planning"} :
                    BeginPhase(s, "AAAAA", pid, phase, 0)
            \/ \E pid \in KnownIds, target \in KnownIds : BeginRemove(s, "AAAAA", pid, target)
    \/ \E s \in Slots :
            \/ \E code \in Codes : InsertAttempt(s, code)
            \/ CommitJoin(s)
            \/ CommitEnd(s)
            \/ CommitAddIdea(s)
            \/ CommitVote(s)
            \/ CommitDetail(s)
            \/ CommitPhase(s)
            \/ CommitRemove(s)
            \/ Reread(s)

SpecEnd == Init /\ [][NextEnd]_vars

MaxActionOps == 5

\* action items: one room, its members and ideas, and addAction by every
\* known id on every known id
NextAction ==
    \/ /\ nops < MaxActionOps
       /\ \E s \in Slots :
            \/ NoRoomYet /\ BeginCreate(s, "Alex")
            \/ BeginJoin(s, "AAAAA", "Sam")
            \/ \E pid \in KnownIds : BeginAddIdea(s, "AAAAA", pid)
            \/ \E pid \in KnownIds, ideaId \in KnownIds : AddAction(s, "AAAAA", pid, ideaId)
    \/ \E s \in Slots :
            \/ InsertAttempt(s, "AAAAA")
            \/ CommitJoin(s)
            \/ CommitAddIdea(s)
            \/ Reread(s)

SpecAction == Init /\ [][NextAction]_vars

MaxDetailOps == 5

\* details: one room, its ideas, the phase, and details by every known id
NextDetail ==
    \/ /\ nops < MaxDetailOps
       /\ \E s \in Slots :
            \/ NoRoomYet /\ BeginCreate(s, "Alex")
            \/ BeginJoin(s, "AAAAA", "Sam")
            \/ BeginAddIdea(s, "AAAAA", 1)
            \/ \E phase \in PHASES : BeginPhase(s, "AAAAA", 1, phase, 0)
            \/ \E pid \in KnownIds, ideaId \in KnownIds : BeginDetail(s, "AAAAA", pid, ideaId)
    \/ \E s \in Slots :
            \/ InsertAttempt(s, "AAAAA")
            \/ CommitJoin(s)
            \/ CommitAddIdea(s)
            \/ CommitPhase(s)
            \/ CommitDetail(s)
            \/ Reread(s)

SpecDetail == Init /\ [][NextDetail]_vars

\* every route with every input; the specifications above are its
\* restrictions to the routes and inputs of one group of claims each
Next ==
    \/ Tick
    \/ \E s \in Slots :
            \/ \E name \in Names : BeginCreate(s, name)
            \/ \E code \in Codes : InsertAttempt(s, code)
            \/ \E code \in Codes, name \in Names : BeginJoin(s, code, name)
            \/ CommitJoin(s)
            \/ \E code \in Codes, pid \in KnownIds : BeginAddIdea(s, code, pid)
            \/ CommitAddIdea(s)
            \/ \E code \in Codes, pid \in KnownIds, ideaId \in KnownIds :
                    BeginVote(s, code, pid, ideaId)
            \/ CommitVote(s)
            \/ \E code \in Codes, pid \in KnownIds, phase \in PHASES \cup {"planning"},
                  endsAt \in 0..MaxClock : BeginPhase(s, code, pid, phase, endsAt)
            \/ CommitPhase(s)
            \/ \E code \in Codes, pid \in KnownIds : BeginEnd(s, code, pid)
            \/ CommitEnd(s)
            \/ \E code \in Codes, pid \in KnownIds, target \in KnownIds :
                    BeginRemove(s, code, pid, target)
            \/ CommitRemove(s)
            \/ \E code \in Codes : GetRoom(s, code)
            \/ \E code \in Codes, pid \in KnownIds, ideaId \in KnownIds :
                    BeginDetail(s, code, pid, ideaId)
            \/ CommitDetail(s)
            \/ Reread(s)
    \/ \E c \in ChanIds :
            \/ \E code \in Codes, pid \in KnownIds : OpenStream(c, code, pid)
            \/ WatchStart(c)
            \/ Lookup(c)
            \/ OnChange(c)
            \/ Disconnect(c)
            \/ EarlyClose(c)
            \/ \E kind \in {"transient", "permanent"} : StreamError(c, kind)

Spec == Init /\ [][Next]_vars

----------------------------------------------------------------------------
(* Claims *)

Votes(room, ideaId) == room.ideas[IdeaIndex(room, ideaId)].votes

InVotes(room, ideaId, pid) == pid \in SeqToSet(Votes(room, ideaId))

ParticipantIds(room) == {room.participants[i].id : i \in 1..Len(room.participants)}

\* C1: in every reachable state, every non-admin participant of a room is the
\* author of at most 3 of the room's ideas.
C1_QuotaHolds ==
    \A d \in rooms : \A i \in 1..Len(d.participants) :
        d.participants[i].role # "admin"
            => participantIdeaCount(d, d.participants[i].id) <= IdeaQuota

\* C2: a vote by a member on an existing idea is refused while the phase is
\* ideate, and accepted in phase ended when the member has not voted for it.
C2_VoteOnlyWhenEndedOrPlanning ==
    \A s \in Slots :
        LET r == reqs[s]
        IN (/\ r.op = "vote" /\ r.pc = "done"
            /\ r.room # NoRoom
            /\ HasParticipant(r.room, r.pid)
            /\ HasIdea(r.room, r.target))
           => /\ r.room.phase = "ideate" => r.res.status = 400
              /\ (r.room.phase = "ended" /\ ~InVotes(r.room, r.target, r.pid))
                    => r.res.status = 200

\* a vote request whose checks all passed on the copy it read
VotePassed(r) ==
    /\ r.op = "vote"
    /\ r.room # NoRoom
    /\ HasParticipant(r.room, r.pid)
    /\ r.room.phase # "ended"
    /\ HasIdea(r.room, r.target)
    /\ ~InVotes(r.room, r.target, r.pid)

\* C3 as claimed: a vote by a member who is already in the idea's votes
\* succeeds and takes the member out of the votes again.
C3_SecondVoteUndoesFirst ==
    \A s \in Slots :
        LET r == reqs[s]
        IN (/\ r.op = "vote" /\ r.pc = "done"
            /\ r.room # NoRoom
            /\ HasParticipant(r.room, r.pid)
            /\ r.room.phase # "ended"
            /\ HasIdea(r.room, r.target)
            /\ InVotes(r.room, r.target, r.pid))
           => /\ r.res.status = 200
              /\ r.pid \notin SeqToSet(Votes(r.res.room, r.target))

C3_SecondVoteRejected ==
    \A s \in Slots :
        LET r == reqs[s]
        IN (/\ r.op = "vote" /\ r.pc = "done"
            /\ r.room # NoRoom
            /\ HasParticipant(r.room, r.pid)
            /\ r.room.phase # "ended"
            /\ HasIdea(r.room, r.target)
            /\ InVotes(r.room, r.target, r.pid))
           => /\ r.res.status = 400
              /\ r.res.message = "You already voted on this idea"

C3_FirstVoteLands ==
    \A s \in Slots :
        LET r == reqs[s]
            cur == findOneById(r.room.oid)
        IN (VotePassed(r) /\ r.pc \in {"reread", "done"} /\ cur # NoRoom)
           => /\ r.pid \in SeqToSet(Votes(cur, r.target))
              /\ r.pc = "done" => r.res.status = 200

C3_VotesOnlyGrow ==
    \A d \in rooms : \A e \in rooms' :
        e.oid = d.oid =>
            \A i \in 1..Len(d.ideas) :
                /\ i <= Len(e.ideas)
                /\ e.ideas[i].id = d.ideas[i].id
                /\ Len(d.ideas[i].votes) <= Len(e.ideas[i].votes)
                /\ SubSeq(e.ideas[i].votes, 1, Len(d.ideas[i].votes)) = d.ideas[i].votes

\* C3 (amended): a vote by a member who is not in the idea's votes adds the
\* member and succeeds; a vote by a member who is already in them is refused
\* with "You already voted on this idea"; and no step ever takes an id out of
\* an idea's votes: a second vote does not undo the first.
C3_VoteOnce ==
    /\ [](C3_SecondVoteRejected /\ C3_FirstVoteLands)
    /\ [][C3_VotesOnlyGrow]_vars

C3_Witness ==
    \E s \in Slots :
        LET r == reqs[s]
        IN /\ r.op = "vote" /\ r.pc = "done"
           /\ r.res.message = "You already voted on this idea"
           /\ findOneById(r.room.oid) # NoRoom
           /\ Votes(findOneById(r.room.oid), r.target) = <<r.pid>>

\* C4: in every reachable state, no idea's votes hold the same participant id
\* twice.
C4_VotesUnique ==
    \A d \in rooms : \A i \in 1..Len(d.ideas) :
        Cardinality(SeqToSet(d.ideas[i].votes)) = Len(d.ideas[i].votes)

\* C5: when the vote requests of two different members on the same idea have
\* both passed their checks and both been answered, both were answered with
\* success and the idea's votes hold both members' ids.
C5_ConcurrentVotesBothLand ==
    \A s1 \in Slots : \A s2 \in Slots \ {s1} :
        LET r1 == reqs[s1]
            r2 == reqs[s2]
            cur == findOneById(r1.room.oid)
        IN (/\ VotePassed(r1) /\ VotePassed(r2)
            /\ r1.pc = "done" /\ r2.pc = "done"
            /\ r1.room.oid = r2.room.oid
            /\ r1.target = r2.target
            /\ r1.pid # r2.pid)
           => /\ r1.res.status = 200 /\ r2.res.status = 200
              /\ cur # NoRoom
              /\ {r1.pid, r2.pid} \subseteq SeqToSet(Votes(cur, r1.target))

\* both requests read the idea before either vote was in it
C5_Witness ==
    \E s1 \in Slots : \E s2 \in Slots \ {s1} :
        LET r1 == reqs[s1]
            r2 == reqs[s2]
        IN /\ VotePassed(r1) /\ VotePassed(r2)
           /\ r1.pc = "done" /\ r2.pc = "done"
           /\ r1.room.oid = r2.room.oid
           /\ r1.target = r2.target
           /\ r1.pid # r2.pid
           /\ Votes(r1.room, r1.target) = <<>>
           /\ Votes(r2.room, r2.target) = <<>>
           /\ r1.res.status = 200 /\ r2.res.status = 200

Last(s) == s[Len(s)]

\* the stream has evaluated every change of the feed and handled what passed
Drained(ch) == ch.pos > Len(oplog) /\ ch.inbox = <<>>

\* C6: a channel that was watching when its room was deleted, once it is
\* through the feed, has emitted closed with the admin name of the last
\* snapshot it saw, and has been ended by the server.
C6_ClosedOnDelete ==
    \A c \in ChanIds :
        LET ch == chans[c]
        IN (/\ ch.st \in {"watching", "ended"}
            /\ \E i \in ch.since..Len(oplog) :
                   /\ oplog[i].type = "delete"
                   /\ oplog[i].oid = ch.oid
                   /\ ch.pos > i
            /\ ch.inbox = <<>>)
           => /\ ch.st = "ended"
              /\ Last(ch.events).type = "closed"
              /\ Last(ch.events).adminName = ch.latestAdminName

\* C7: no channel emits an update whose snapshot does not list the channel's
\* participant.
C7_RemovedNotUpdate ==
    \A c \in ChanIds : \A i \in 1..Len(chans[c].events) :
        chans[c].events[i].type = "update"
            => chans[c].pid \in ParticipantIds(chans[c].events[i].room)

\* C8: the first event of a channel is init, and a channel that is through
\* the feed of a room that still exists has last emitted the room as it is.
C8_NoGapAfterInit ==
    \A c \in ChanIds :
        LET ch == chans[c]
            cur == findOneById(ch.oid)
        IN /\ ch.events # <<>> => ch.events[1].type = "init"
           /\ (ch.st = "watching" /\ Drained(ch) /\ cur # NoRoom)
                 => Last(ch.events).room = formatRoom(cur)

\* C9: on a channel, every update reports a later change of the feed than the
\* events before it, and carries a snapshot read no earlier than theirs and no
\* earlier than the change it reports.
C9_UpdatesInCommitOrder ==
    \A c \in ChanIds :
        LET ev == chans[c].events
        IN \A j \in 1..Len(ev) :
              ev[j].type = "update" =>
                 /\ ev[j].at <= ev[j].asOf
                 /\ \A i \in 1..(j - 1) :
                       /\ ev[i].at < ev[j].at
                       /\ ev[i].asOf <= ev[j].asOf

C9_Witness ==
    \E c \in ChanIds :
        LET ev == chans[c].events
        IN \E i \in 1..Len(ev) : \E j \in 1..Len(ev) :
              /\ i < j
              /\ ev[i].type = "update" /\ ev[j].type = "update"
              /\ ev[i].room # ev[j].room

\* C10: no two rooms of the collection have the same code.
C10_CodesUnique ==
    \A d \in rooms : \A e \in rooms : d.code = e.code => d.oid = e.oid

\* two rooms exist, and a create request that generated a taken code got
\* another one
C10_Witness ==
    /\ Cardinality(rooms) = 2
    /\ \E s \in Slots :
          /\ reqs[s].op = "create" /\ reqs[s].attempt > 0
          /\ reqs[s].res.status = 201

----------------------------------------------------------------------------
(* Claims about the roster, the phase and the end of a room *)

\* the ids of a room's participants with role admin
RoomAdmins(room) ==
    {room.participants[i].id :
        i \in {j \in 1..Len(room.participants) : room.participants[j].role = "admin"}}

\* the id given to the host when the room with this _id was inserted
CreatedAdminId(oid) ==
    LET i == CHOOSE i \in 1..Len(oplog) : oplog[i].type = "insert" /\ oplog[i].oid = oid
    IN oplog[i].doc.participants[1].id

\* the rooms a query by code finds
RoomsWithCode(code) == {d \in rooms : d.code = code}

\* this step accepts a request of route op in slot s
Accepted(s, op) ==
    /\ reqs[s].pc \in {"idle", "done"}
    /\ reqs'[s] # reqs[s]
    /\ reqs'[s].op = op

\* names compared as the client does (normalizeName)
FoldCase(name) ==
    CASE name \in {"Sam", "sam", "SAM"} -> "sam"
      [] name \in {"Alex", "alex", "ALEX"} -> "alex"
      [] OTHER -> name

\* the participant a client takes for itself in a room snapshot
\* (findParticipantIdentity without a role hint); 0 when there is none
ResolveId(room, name) ==
    IF \E i \in 1..Len(room.participants) : FoldCase(room.participants[i].name) = FoldCase(name)
    THEN LET i == CHOOSE i \in 1..Len(room.participants) :
                    /\ FoldCase(room.participants[i].name) = FoldCase(name)
                    /\ \A j \in 1..(i - 1) :
                          FoldCase(room.participants[j].name) # FoldCase(name)
         IN room.participants[i].id
    ELSE 0

\* C11: in every reachable state, every room has exactly one participant with
\* role admin, and that participant's id is the id the host was given when the
\* room was created.
C11_OneAdminFixed ==
    \A d \in rooms :
        /\ Cardinality({i \in 1..Len(d.participants) : d.participants[i].role = "admin"}) = 1
        /\ RoomAdmins(d) = {CreatedAdminId(d.oid)}

\* a removal aimed at the host was answered, in a room that others have joined
C11_Witness ==
    \E s \in Slots :
        LET r == reqs[s]
            cur == findOneById(r.room.oid)
        IN /\ r.op = "remove" /\ r.pc = "done"
           /\ cur # NoRoom
           /\ r.target = CreatedAdminId(cur.oid)
           /\ Len(cur.participants) >= 2

\* C12: when a join has been answered and the roster is still as that answer
\* shows it, a second join of the same room under a name that is equal
\* ignoring case is answered at once with success, writes nothing (the roster
\* and updatedAt stay as they are), and its answer resolves the name to the
\* same participant id in a roster of the same length.
C12_SecondJoinSame ==
    [][\A s \in Slots : \A t \in Slots :
          LET first == reqs[t]
              second == reqs'[s]
              cur == findOneById(first.room.oid)
          IN (/\ first.op = "join" /\ first.pc = "done" /\ first.res.status = 200
              /\ cur # NoRoom
              /\ cur.participants = first.res.room.participants
              /\ Accepted(s, "join")
              /\ second.code = first.code
              /\ FoldCase(second.name) = FoldCase(first.name))
             => /\ second.pc = "done"
                /\ second.res.status = 200
                /\ rooms' = rooms
                /\ ResolveId(second.res.room, second.name) # 0
                /\ ResolveId(second.res.room, second.name)
                      = ResolveId(first.res.room, first.name)
                /\ Len(second.res.room.participants) = Len(first.res.room.participants)
      ]_vars

\* a join as "sam" was answered with the roster that holds Sam, once
C12_Witness ==
    \E s \in Slots :
        LET r == reqs[s]
        IN /\ r.op = "join" /\ r.pc = "done" /\ r.name = "sam"
           /\ r.res.message = "You are already in this room"
           /\ \E i \in 1..Len(r.res.room.participants) :
                 /\ r.res.room.participants[i].name = "Sam"
                 /\ r.res.room.participants[i].role = "participant"
           /\ findOneById(r.room.oid) # NoRoom
           /\ Len(findOneById(r.room.oid).participants) = 2

\* C13: in every reachable state, no room has two participants whose names are
\* equal ignoring case.
C13_NamesUnique ==
    \A d \in rooms :
        \A i \in 1..Len(d.participants) : \A j \in 1..Len(d.participants) :
            i # j => FoldCase(d.participants[i].name) # FoldCase(d.participants[j].name)

\* C14: no step appends an idea to a room whose phase is ended.
C14_NoIdeaWhenEnded ==
    [][\A d \in rooms : \A e \in rooms' :
          (e.oid = d.oid /\ d.phase = "ended") => Len(e.ideas) <= Len(d.ideas)
      ]_vars

\* C15: every idea, vote or detail a step adds to a room is attributed to an
\* id that is in the room's roster when the step is taken: nothing by a
\* removed participant lands after the removal.
C15_NothingAfterRemoval ==
    [][\A d \in rooms : \A e \in rooms' :
          e.oid = d.oid =>
            /\ Len(e.ideas) > Len(d.ideas)
                  => e.ideas[Len(e.ideas)].authorId \in ParticipantIds(d)
            /\ \A i \in 1..Len(d.ideas) :
                  i <= Len(e.ideas) =>
                    /\ Len(e.ideas[i].votes) > Len(d.ideas[i].votes)
                          => Last(e.ideas[i].votes) \in ParticipantIds(d)
                    /\ Len(e.ideas[i].details) > Len(d.ideas[i].details)
                          => Last(e.ideas[i].details).authorId \in ParticipantIds(d)
      ]_vars

\* C16: no step lowers a room's updatedAt.
C16_UpdatedAtMonotonic ==
    [][\A d \in rooms : \A e \in rooms' :
          e.oid = d.oid => e.updatedAt >= d.updatedAt
      ]_vars

C17_TwoPhasesTakenUp ==
    \A s \in Slots : \A d \in rooms :
        (/\ Accepted(s, "phase")
         /\ d.code = reqs'[s].code
         /\ reqs'[s].pid \in RoomAdmins(d))
        => /\ reqs'[s].phase \in {"ideate", "ended"} => reqs'[s].pc = "update"
           /\ reqs'[s].phase = "planning"
                 => /\ reqs'[s].pc = "done"
                    /\ reqs'[s].res.status = 400
                    /\ reqs'[s].res.message = "Valid phase and admin id are required"
                    /\ rooms' = rooms

C17_WriteSetsPhase ==
    \A s \in Slots :
        (/\ reqs[s].op = "phase" /\ reqs[s].pc = "update"
         /\ reqs'[s].pc = "reread"
         /\ findOneById(reqs[s].room.oid) # NoRoom)
        => \E e \in rooms' : e.oid = reqs[s].room.oid /\ e.phase = reqs[s].phase

C17_AnsweredOk ==
    \A s \in Slots :
        LET r == reqs[s]
        IN (/\ r.op = "phase" /\ r.pc = "done"
            /\ r.room # NoRoom
            /\ r.pid \in RoomAdmins(r.room)
            /\ findOneById(r.room.oid) # NoRoom)
           => /\ r.res.status = 200
              /\ r.res.room.phase \in {"ideate", "ended"}

C17_PhaseOfTwo == \A d \in rooms : d.phase \in {"ideate", "ended"}

C18_NonHostRefused ==
    \A s \in Slots : \A d \in rooms :
        (/\ Accepted(s, "phase")
         /\ d.code = reqs'[s].code
         /\ reqs'[s].pid \notin RoomAdmins(d))
        => /\ reqs'[s].pc = "done"
           /\ rooms' = rooms
           /\ reqs'[s].res.status \in {400, 403}
           /\ reqs'[s].phase \in {"ideate", "ended"}
                 => /\ reqs'[s].res.status = 403
                    /\ reqs'[s].res.message = "Only the host can change the phase"

\* C18: a phase request whose requester is not the room's host is answered at
\* once, with 403 "Only the host can change the phase" when the phase is one
\* the server knows, and the step writes nothing: phase, phaseEndsAt and
\* updatedAt stay as they are.
C18_PhaseForbidden == [][C18_NonHostRefused]_vars

\* a member who is not the host asked for ended and was refused; the room is
\* still in ideate
C18_Witness ==
    \E s \in Slots :
        LET r == reqs[s]
        IN /\ r.op = "phase" /\ r.pc = "done"
           /\ r.room # NoRoom
           /\ r.pid \in ParticipantIds(r.room)
           /\ r.pid \notin RoomAdmins(r.room)
           /\ r.phase = "ended"
           /\ r.res.status = 403
           /\ findOneById(r.room.oid) # NoRoom
           /\ findOneById(r.room.oid).phase = "ideate"

C19_NonHostRefused ==
    \A s \in Slots : \A d \in rooms :
        (/\ Accepted(s, "end")
         /\ d.code = reqs'[s].code
         /\ reqs'[s].pid \notin RoomAdmins(d))
        => /\ reqs'[s].pc = "done"
           /\ reqs'[s].res.status = 403
           /\ reqs'[s].res.message = "Only the host can end this room"
           /\ rooms' = rooms

\* C19: an end request whose requester is not the room's host is answered at
\* once with 403 "Only the host can end this room", and the step leaves every
\* room as it is.
C19_EndForbidden == [][C19_NonHostRefused]_vars

\* a member who is not the host asked to end the room; the room is as it was
C19_Witness ==
    \E s \in Slots :
        LET r == reqs[s]
        IN /\ r.op = "end" /\ r.pc = "done"
           /\ r.room # NoRoom
           /\ r.pid \in ParticipantIds(r.room)
           /\ r.pid \notin RoomAdmins(r.room)
           /\ r.res.status = 403
           /\ findOneById(r.room.oid) = r.room

C20_EndedIsGone ==
    \A s \in Slots :
        LET r == reqs[s]
        IN (r.op = "end" /\ r.pc = "done" /\ r.res.status = 200)
           => /\ findOneById(r.room.oid) = NoRoom
              /\ \A d \in RoomsWithCode(r.code) : d.oid > r.room.oid

C20_AbsentIsNotFound ==
    \A s \in Slots :
        (/\ reqs[s].pc \in {"idle", "done"}
         /\ reqs'[s] # reqs[s]
         /\ reqs'[s].op \in {"get", "join", "idea", "vote", "detail", "phase",
                             "remove", "end"}
         /\ reqs'[s].op = "phase" => reqs'[s].phase \in {"ideate", "ended"}
         /\ RoomsWithCode(reqs'[s].code) = {})
        => /\ reqs'[s].pc = "done"
           /\ reqs'[s].res.status = 404
           /\ reqs'[s].res.message = "Room not found"
           /\ rooms' = rooms

\* C20: once an end request by the host has been answered with success, the
\* room it ended is not in the collection, and a room found under its code is
\* one created later; and every get, join or mutation accepted while no room
\* has its code is answered at once with 404 "Room not found" and writes
\* nothing.
C20_NotFoundAfterEnd ==
    /\ []C20_EndedIsGone
    /\ [][C20_AbsentIsNotFound]_vars

\* the host ended the room, and a later request by the host's id on the same
\* code was answered with 404
C20_Witness ==
    \E s \in Slots : \E t \in Slots :
        /\ reqs[t].op = "end" /\ reqs[t].pc = "done" /\ reqs[t].res.status = 200
        /\ reqs[s].op \in {"idea", "vote", "detail", "phase", "remove"}
        /\ reqs[s].pc = "done"
        /\ reqs[s].code = reqs[t].code
        /\ reqs[s].pid = reqs[t].pid
        /\ reqs[s].res.status = 404
        /\ RoomsWithCode(reqs[t].code) = {}

----------------------------------------------------------------------------
(* Claims about removal, the subscriber channels, details and vote errors *)

C21_RemoveRefused ==
    \A s \in Slots : \A d \in rooms :
        (Accepted(s, "remove") /\ d.code = reqs'[s].code)
        => /\ reqs'[s].pid \notin RoomAdmins(d)
                 => /\ reqs'[s].pc = "done"
                    /\ reqs'[s].res.status = 403
                    /\ reqs'[s].res.message = "Only the host can remove participants"
                    /\ rooms' = rooms
           /\ (reqs'[s].pid \in RoomAdmins(d) /\ reqs'[s].target = reqs'[s].pid)
                 => /\ reqs'[s].pc = "done"
                    /\ reqs'[s].res.status = 400
                    /\ reqs'[s].res.message = "Host cannot remove themselves here"
                    /\ rooms' = rooms

\* C21: a removal whose requester is not the room's host is answered at once
\* with 403, and a removal by the host that names the host is answered at once
\* with 400; the step writes nothing, so the participants are unchanged.
C21_RemoveErrors == [][C21_RemoveRefused]_vars

\* both refusals have been given on a room with two participants, which it
\* still has
C21_Witness ==
    \E s \in Slots : \E t \in Slots :
        /\ reqs[s].op = "remove" /\ reqs[s].pc = "done"
        /\ reqs[s].res.message = "Only the host can remove participants"
        /\ reqs[t].op = "remove" /\ reqs[t].pc = "done"
        /\ reqs[t].res.message = "Host cannot remove themselves here"
        /\ \E d \in rooms : d.code = reqs[t].code /\ Len(d.participants) = 2

\* the sequence without its k-th element
Without(seq, k) == SubSeq(seq, 1, k - 1) \o SubSeq(seq, k + 1, Len(seq))

C22_RemoveFrame ==
    \A s \in Slots :
        LET r == reqs[s]
            d == findOneById(r.room.oid)
        IN (/\ r.op = "remove" /\ r.pc = "update"
            /\ reqs'[s].pc = "done"
            /\ d # NoRoom)
           => \E e \in rooms' :
                 /\ e.oid = d.oid
                 /\ rooms' \ {e} = rooms \ {d}
                 /\ [e EXCEPT !.participants = <<>>, !.updatedAt = 0]
                       = [d EXCEPT !.participants = <<>>, !.updatedAt = 0]
                 /\ r.target \in ParticipantIds(d)
                       => /\ reqs'[s].res.status = 200
                          /\ \E k \in 1..Len(d.participants) :
                                /\ d.participants[k].id = r.target
                                /\ e.participants = Without(d.participants, k)
                 /\ r.target \notin ParticipantIds(d)
                       => e.participants = d.participants

\* C22: the write of a removal takes exactly the target's entry out of the
\* participants and, updatedAt apart, leaves every other field of the room
\* and every other room as it was: the other entries, the ideas with their
\* authorId, authorName, votes and details, the phase and the code.
C22_RemovesOnlyTheEntry == [][C22_RemoveFrame]_vars

\* a member who wrote an idea was removed; the idea is still there under the
\* member's id
C22_Witness ==
    \E s \in Slots :
        LET r == reqs[s]
            cur == findOneById(r.room.oid)
        IN /\ r.op = "remove" /\ r.pc = "done" /\ r.res.status = 200
           /\ cur # NoRoom
           /\ r.target \notin ParticipantIds(cur)
           /\ \E i \in 1..Len(cur.ideas) : cur.ideas[i].authorId = r.target

C23_RefusedAtOpen ==
    \A c \in ChanIds :
        (chans[c].st = "none" /\ chans'[c].st # "none")
        => /\ RoomsWithCode(chans'[c].code) = {}
                 => chans'[c].st = "refused" /\ chans'[c].status = 404
           /\ \A d \in RoomsWithCode(chans'[c].code) :
                 chans'[c].pid \notin ParticipantIds(d)
                    => chans'[c].st = "refused" /\ chans'[c].status = 403

C23_RefusedSilent ==
    \A c \in ChanIds :
        chans[c].st = "refused"
            => /\ chans[c].events = <<>>
               /\ chans[c].inbox = <<>>
               /\ chans[c].since = 0 /\ chans[c].pos = 0

\* C23: a stream request for a code no room has is refused with 404, one for
\* an id that is not in the room's participants when the request is served is
\* refused with 403; a refused channel has emitted nothing, not even init,
\* and no change stream is ever opened for it.
C23_Admission ==
    /\ []C23_RefusedSilent
    /\ [][C23_RefusedAtOpen]_vars

\* a removed participant asked for the stream of the room and was refused
C23_Witness ==
    \E c \in ChanIds : \E s \in Slots :
        /\ chans[c].st = "refused" /\ chans[c].status = 403
        /\ reqs[s].op = "remove" /\ reqs[s].pc = "done" /\ reqs[s].res.status = 200
        /\ reqs[s].target = chans[c].pid
        /\ RoomsWithCode(chans[c].code) # {}

Terminal(ev) == ev.type \in {"closed", "removed", "error"}

C24_NothingAfterTerminal ==
    \A c \in ChanIds :
        /\ (chans[c].events # <<>> /\ Terminal(Last(chans[c].events)))
              => chans'[c].events = chans[c].events
        /\ (/\ Len(chans'[c].events) > Len(chans[c].events)
            /\ Last(chans'[c].events).type = "error")
              => /\ chans'[c].events = Append(chans[c].events, Last(chans'[c].events))
                 /\ chans'[c].st \notin {"attached", "watching"}
                 /\ chans'[c].inbox = <<>>

C24_OpenHasNoTerminal ==
    \A c \in ChanIds :
        chans[c].st \in {"attached", "watching"}
            => \A i \in 1..Len(chans[c].events) : ~Terminal(chans[c].events[i])

\* C24: the step in which a channel's change stream reports an error writes
\* one error event and ends the channel; a channel whose last event is
\* closed, removed or error gets no further event, whatever is committed
\* afterwards; and a channel that is still open has written no such event.
C24_TerminalIsLast ==
    /\ []C24_OpenHasNoTerminal
    /\ [][C24_NothingAfterTerminal]_vars

\* a channel ended by an error, and a change of its room committed afterwards
C24_Witness ==
    \E c \in ChanIds :
        LET ch == chans[c]
        IN /\ ch.st = "broken"
           /\ Last(ch.events).type = "error"
           /\ Len(ch.events) >= 2
           /\ Len(oplog) > Last(ch.events).asOf
           /\ oplog[Len(oplog)].oid = ch.oid

\* C25: a channel is ended with the error event only by a permanent failure
\* of its change stream; after a transient one it is still observing.
C25_OnlyPermanentTerminates ==
    \A c \in ChanIds :
        /\ chans[c].st = "broken" => chans[c].fault = "permanent"
        /\ chans[c].fault = "transient" => chans[c].st \in {"attached", "watching"}

\* C26: whenever the client of a channel is gone, the channel eventually has
\* no change stream open or being opened.
C26_ClosedClientReleased ==
    \A c \in ChanIds :
        [](chans[c].client = "gone"
              => <>(chans[c].st \notin {"attached", "watching"}))

C27_OwnChannelOnly ==
    \A c \in ChanIds :
        (/\ chans[c].st \in {"attached", "watching"}
         /\ chans'[c].st \in {"gone", "broken"})
        => /\ \A d \in ChanIds \ {c} : chans'[d] = chans[d]
           /\ rooms' = rooms /\ oplog' = oplog /\ reqs' = reqs

\* the updates of the room of channel ch committed since its stream started
UpdatesSince(ch) ==
    {i \in ch.since..Len(oplog) : oplog[i].type = "update" /\ oplog[i].oid = ch.oid}

UpdateEvents(ch) == {i \in 1..Len(ch.events) : ch.events[i].type = "update"}

C27_OthersKeepReceiving ==
    \A d \in ChanIds :
        LET ch == chans[d]
        IN (ch.st = "watching" /\ Drained(ch) /\ findOneById(ch.oid) # NoRoom)
           => Cardinality(UpdateEvents(ch)) = Cardinality(UpdatesSince(ch))

\* C27: the step in which a channel is disconnected or ended by an error
\* changes no other channel, no room and no request in flight; and a channel
\* that is open and through the feed has emitted one update for every update
\* of its room committed since its stream started, whatever happened to the
\* other channels.
C27_ChannelsIndependent ==
    /\ []C27_OthersKeepReceiving
    /\ [][C27_OwnChannelOnly]_vars

\* one channel was ended by an error; the other has since emitted an update
\* for a change committed after that
C27_Witness ==
    \E c \in ChanIds : \E d \in ChanIds \ {c} :
        /\ chans[c].st = "broken"
        /\ chans[c].since > 0
        /\ chans[d].st = "watching"
        /\ chans[d].oid = chans[c].oid
        /\ Last(chans[d].events).type = "update"
        /\ Last(chans[d].events).at > Last(chans[c].events).asOf

C28_DetailAdmission ==
    \A s \in Slots : \A d \in rooms :
        (Accepted(s, "detail") /\ d.code = reqs'[s].code)
        => /\ reqs'[s].pid \notin ParticipantIds(d)
                 => /\ reqs'[s].pc = "done"
                    /\ reqs'[s].res.status = 403
                    /\ reqs'[s].res.message = "You are not part of this room"
                    /\ rooms' = rooms
           /\ reqs'[s].pid \in ParticipantIds(d) => reqs'[s].pc = "update"

C28_DetailAppended ==
    \A s \in Slots :
        LET r == reqs[s]
            d == findOneById(r.room.oid)
        IN (/\ r.op = "detail" /\ r.pc = "update"
            /\ reqs'[s].pc = "reread"
            /\ d # NoRoom
            /\ \E i \in 1..Len(d.ideas) : d.ideas[i].id = r.target)
           => \E e \in rooms' : \E k \in 1..Len(d.ideas) :
                 /\ e.oid = d.oid
                 /\ d.ideas[k].id = r.target
                 /\ Len(e.ideas) = Len(d.ideas)
                 /\ Len(e.ideas[k].details) = Len(d.ideas[k].details) + 1
                 /\ SubSeq(e.ideas[k].details, 1, Len(d.ideas[k].details))
                       = d.ideas[k].details
                 /\ Last(e.ideas[k].details).authorId = r.pid
                 /\ \E i \in 1..Len(r.room.participants) :
                       /\ r.room.participants[i].id = r.pid
                       /\ r.room.participants[i].name = Last(e.ideas[k].details).authorName
                 /\ [e EXCEPT !.ideas[k].details = d.ideas[k].details,
                              !.updatedAt = d.updatedAt] = d

C28_DetailAnswered ==
    \A s \in Slots :
        LET r == reqs[s]
        IN (/\ r.op = "detail" /\ r.pc = "done"
            /\ r.room # NoRoom
            /\ r.pid \in ParticipantIds(r.room)
            /\ \E i \in 1..Len(r.room.ideas) : r.room.ideas[i].id = r.target
            /\ findOneById(r.room.oid) # NoRoom)
           => r.res.status = 200 /\ r.res.message = "Detail added"

\* C28: a detail request by a member is taken up whatever the room's phase,
\* its write appends exactly one detail with the member's id and name at the
\* end of the idea's details and changes nothing else but updatedAt, and it
\* is answered with success; a detail request by an id that is not in the
\* participants is answered at once with 403 and writes nothing.
C28_DetailInEveryPhase ==
    /\ []C28_DetailAnswered
    /\ [][C28_DetailAdmission /\ C28_DetailAppended]_vars

\* a participant added a detail to an idea of a room in phase ended
C28_Witness ==
    \E s \in Slots :
        LET r == reqs[s]
            cur == findOneById(r.room.oid)
        IN /\ r.op = "detail" /\ r.pc = "done" /\ r.res.status = 200
           /\ r.room.phase = "ended"
           /\ r.pid \notin RoomAdmins(r.room)
           /\ cur # NoRoom
           /\ \E i \in 1..Len(cur.ideas) :
                 /\ cur.ideas[i].id = r.target
                 /\ cur.ideas[i].details # <<>>
                 /\ Last(cur.ideas[i].details).id = r.newId
                 /\ Last(cur.ideas[i].details).authorId = r.pid

C29_DetailsOnlyGrow ==
    \A d \in rooms : \A e \in rooms' :
        e.oid = d.oid =>
            /\ Len(d.ideas) <= Len(e.ideas)
            /\ \A i \in 1..Len(d.ideas) :
                  /\ e.ideas[i].id = d.ideas[i].id
                  /\ Len(d.ideas[i].details) <= Len(e.ideas[i].details)
                  /\ SubSeq(e.ideas[i].details, 1, Len(d.ideas[i].details))
                        = d.ideas[i].details

\* C29: in every step, every idea of a room that is still there keeps its
\* position, and its details before the step are a prefix of its details
\* after it: details only grow at their end, and no idea is removed or
\* reordered.
C29_DetailsAppendOnly == [][C29_DetailsOnlyGrow]_vars

\* an idea has two details, the second one added after the first
C29_Witness ==
    \E d \in rooms : \E i \in 1..Len(d.ideas) :
        /\ Len(d.ideas[i].details) = 2
        /\ d.ideas[i].details[1].id < d.ideas[i].details[2].id

C30_VoteRefused ==
    \A s \in Slots : \A d \in rooms :
        (Accepted(s, "vote") /\ d.code = reqs'[s].code)
        => /\ reqs'[s].pid \notin ParticipantIds(d)
                 => /\ reqs'[s].pc = "done"
                    /\ reqs'[s].res.status = 403
                    /\ reqs'[s].res.message = "You are not part of this room"
                    /\ rooms' = rooms
           /\ (/\ reqs'[s].pid \in ParticipantIds(d)
               /\ \A i \in 1..Len(d.ideas) : d.ideas[i].id # reqs'[s].target)
                 => /\ reqs'[s].pc = "done"
                    /\ rooms' = rooms
                    /\ d.phase # "ended"
                          => /\ reqs'[s].res.status = 404
                             /\ reqs'[s].res.message = "Idea not found"

\* C30: a vote request by an id that is not in the room's participants is
\* answered at once with 403, and one by a member for an id that is no idea
\* of the room is answered at once, with 404 "Idea not found" when the phase
\* lets votes through; the step writes nothing, so no votes and no other
\* field of the room change.
C30_VoteErrors == [][C30_VoteRefused]_vars

\* both refusals have been given on a room that has an idea without votes
C30_Witness ==
    \E s \in Slots : \E t \in Slots :
        /\ reqs[s].op = "vote" /\ reqs[s].pc = "done"
        /\ reqs[s].res.status = 403
        /\ reqs[t].op = "vote" /\ reqs[t].pc = "done"
        /\ reqs[t].res.message = "Idea not found"
        /\ \E d \in rooms :
              /\ d.code = reqs[t].code
              /\ Len(d.ideas) = 1
              /\ d.ideas[1].votes = <<>>

-----------------------------------------------------------------------------
(* Claims about outcomes, creation, removal and the channels of other rooms *)

\* C31: every finished idea, vote, detail or phase request carries either a
\* success with the room's snapshot or one of the typed failures (400, 403,
\* 404); in particular a request whose room was deleted while it was in
\* flight does not end with the untyped 500.
C31_TypedOutcome ==
    \A s \in Slots :
        LET r == reqs[s]
        IN (r.pc = "done" /\ r.op \in {"idea", "vote", "detail", "phase"})
           => \/ r.res.status \in {200, 201} /\ r.res.room # NoRoom
              \/ r.res.status \in {400, 403, 404}

IdeaActions(d) == [i \in 1..Len(d.ideas) |->
                      IF "actions" \in DOMAIN d.ideas[i] THEN d.ideas[i].actions ELSE <<>>]

C32_ActionAdmission ==
    \A s \in Slots : \A d \in rooms :
        (Accepted(s, "action") /\ d.code = reqs'[s].code)
        => /\ reqs'[s].pc = "done"
           /\ reqs'[s].pid \notin RoomAdmins(d)
                 => /\ reqs'[s].res.status = 403
                    /\ rooms' = rooms
           /\ (/\ reqs'[s].pid \in RoomAdmins(d)
               /\ \E i \in 1..Len(d.ideas) : d.ideas[i].id = reqs'[s].target)
                 => /\ reqs'[s].res.status = 200
                    /\ \E e \in rooms' : \E k \in 1..Len(d.ideas) :
                          /\ e.oid = d.oid
                          /\ d.ideas[k].id = reqs'[s].target
                          /\ Len(e.ideas) = Len(d.ideas)
                          /\ Len(IdeaActions(e)[k]) = Len(IdeaActions(d)[k]) + 1
                          /\ SubSeq(IdeaActions(e)[k], 1, Len(IdeaActions(d)[k]))
                                = IdeaActions(d)[k]
                          /\ Last(IdeaActions(e)[k]).completed = FALSE
                          /\ Last(IdeaActions(e)[k]).createdBy = reqs'[s].pid
                          /\ \A j \in 1..Len(d.ideas) :
                                j # k => IdeaActions(e)[j] = IdeaActions(d)[j]

C32_ActionsOnlyByAdmin ==
    \A d \in rooms : \A i \in 1..Len(d.ideas) :
        \A j \in 1..Len(IdeaActions(d)[i]) :
            /\ IdeaActions(d)[i][j].createdBy = CreatedAdminId(d.oid)
            /\ IdeaActions(d)[i][j].completed = FALSE

\* C32: an addAction request by an id that is not the room's admin (another
\* member or an unknown id) is answered Forbidden and leaves the room as it
\* is; one by the admin on an existing idea appends exactly one action item
\* with completed = false to that idea's actions and leaves the actions of
\* the other ideas alone; every action item in a room was created by its
\* admin.
C32_AddActionAdminOnly ==
    /\ []C32_ActionsOnlyByAdmin
    /\ [][C32_ActionAdmission]_vars

\* the admin has added an action item to an idea, and a member who is not
\* the admin has been refused
C32_Witness ==
    \E s \in Slots : \E t \in Slots : \E d \in rooms :
        /\ reqs[s].op = "action" /\ reqs[s].pc = "done" /\ reqs[s].res.status = 200
        /\ reqs[t].op = "action" /\ reqs[t].pc = "done" /\ reqs[t].res.status = 403
        /\ reqs[t].pid \in ParticipantIds(d)
        /\ \E i \in 1..Len(d.ideas) : Len(IdeaActions(d)[i]) = 1

C33_AttemptsBounded ==
    \A s \in Slots :
        LET r == reqs[s]
        IN r.op = "create" =>
            /\ r.attempt <= MaxAttempts
            /\ r.pc = "insert" => r.attempt < MaxAttempts
            /\ (r.pc = "done" /\ r.res.status = 500)
                  => r.attempt = MaxAttempts /\ r.room = NoRoom
            /\ (r.pc = "done" /\ r.res.status = 201)
                  => r.attempt < MaxAttempts /\ r.room # NoRoom

C33_AttemptStep ==
    \A s \in Slots :
        LET r == reqs[s]
        IN (r.op = "create" /\ r.pc = "insert" /\ reqs'[s] # r)
           => \/ /\ reqs'[s].pc = "done" /\ reqs'[s].res.status = 201
                 /\ reqs'[s].attempt = r.attempt
                 /\ \A d \in rooms : d.code # reqs'[s].code
                 /\ \E e \in rooms' : /\ e.code = reqs'[s].code
                                      /\ rooms' = rooms \cup {e}
                                      /\ e \notin rooms
              \/ /\ rooms' = rooms
                 /\ reqs'[s].attempt = r.attempt + 1
                 /\ reqs'[s].pc = IF r.attempt + 1 = MaxAttempts THEN "done" ELSE "insert"
                 /\ reqs'[s].pc = "done" => reqs'[s].res.status = 500

C33_Terminates ==
    \A s \in Slots :
        (reqs[s].op = "create" /\ reqs[s].pc = "insert") ~> (reqs[s].pc = "done")

\* C33: a create request makes at most 5 insert attempts: an attempt whose
\* code no room has inserts the room and ends the request with it, an attempt
\* whose code collides inserts nothing, the fifth collision ends the request
\* with the failure and no room of its own, and every create request ends.
C33_CreateBounded ==
    /\ []C33_AttemptsBounded
    /\ [][C33_AttemptStep]_vars
    /\ C33_Terminates

\* one create request has failed after five collisions while the room that
\* holds the code is still there, and another has succeeded after a collision
C33_Witness ==
    \E s \in Slots : \E t \in Slots :
        /\ reqs[s].op = "create" /\ reqs[s].pc = "done"
        /\ reqs[s].res.status = 500 /\ reqs[s].attempt = MaxAttempts
        /\ reqs[t].op = "create" /\ reqs[t].pc = "done"
        /\ reqs[t].res.status = 201 /\ reqs[t].attempt > 0
        /\ rooms # {}

C34_FreshRoom(room, adminName) ==
    /\ room.phase = "ideate"
    /\ room.ideas = <<>>
    /\ room.phaseEndsAt = 0
    /\ Len(room.participants) = 1
    /\ room.participants[1].name = adminName
    /\ room.participants[1].role = "admin"

C34_ReturnedRoom ==
    \A s \in Slots :
        LET r == reqs[s]
        IN (r.op = "create" /\ r.pc = "done" /\ r.res.status = 201)
           => /\ r.res.room # NoRoom
              /\ C34_FreshRoom(r.res.room, r.name)

C34_InsertedRoom ==
    \A s \in Slots :
        (reqs[s].op = "create" /\ reqs[s].pc = "insert" /\ reqs'[s].pc = "done"
            /\ reqs'[s].res.status = 201)
        => \E e \in rooms' \ rooms :
              /\ rooms' = rooms \cup {e}
              /\ C34_FreshRoom(e, reqs[s].name)
              /\ e.oid = reqs'[s].res.room.id
              /\ e.code = reqs'[s].res.room.code

\* C34: the room a successful create request returns, and the document it
\* has inserted, have phase ideate, no ideas, no phaseEndsAt, and exactly one
\* participant, whose name is the request's adminName and whose role is
\* admin.
C34_CreatedRoom == []C34_ReturnedRoom /\ [][C34_InsertedRoom]_vars

\* a create request has succeeded on its second attempt, beside a room that
\* was there before, and returned the room it inserted
C34_Witness ==
    \E s \in Slots : \E d \in rooms :
        /\ reqs[s].op = "create" /\ reqs[s].pc = "done" /\ reqs[s].res.status = 201
        /\ reqs[s].attempt = 1
        /\ Cardinality(rooms) = 2
        /\ d.oid = reqs[s].res.room.id
        /\ formatRoom(d) = reqs[s].res.room

\* the snapshots on a channel that do not list the channel's participant
SnapshotsWithout(ch) ==
    {ch.events[i].room : i \in {j \in 1..Len(ch.events) :
        /\ ch.events[j].type \in {"init", "update"}
        /\ ch.pid \notin ParticipantIds(ch.events[j].room)}}

\* C35: a channel carries at most one snapshot that does not list its
\* participant (the room as the removal left it): no snapshot of a state the
\* room took after the removal is delivered on the removed participant's
\* channel.
C35_NothingAfterRemoval ==
    \A c \in ChanIds : Cardinality(SnapshotsWithout(chans[c])) <= 1

C36_AbsentTargetStep ==
    \A s \in Slots : \A d \in rooms :
        (/\ reqs[s].op = "remove" /\ reqs[s].pc = "update"
         /\ reqs'[s].pc = "done"
         /\ d.oid = reqs[s].room.oid
         /\ reqs[s].target \notin ParticipantIds(d))
        => /\ reqs'[s].res.status = 404
           /\ reqs'[s].res.message = "Participant not found in room"
           /\ rooms' = rooms

\* C36: when the write of a remove request names a participant id that is
\* not in the room's participants, the request is answered 404 'Participant
\* not found in room' and the room, updatedAt included, stays as it is.
C36_AbsentTargetNotFound == [][C36_AbsentTargetStep]_vars

\* C37: the snapshot returned with a successful detail request has an idea
\* with the requested id whose details hold the new detail; so a request
\* that names no idea of the room is not answered with success.
C37_SuccessCarriesDetail ==
    \A s \in Slots :
        LET r == reqs[s]
        IN (r.op = "detail" /\ r.pc = "done" /\ r.res.status = 200)
           => \E i \in 1..Len(r.res.room.ideas) :
                 /\ r.res.room.ideas[i].id = r.target
                 /\ \E j \in 1..Len(r.res.room.ideas[i].details) :
                       r.res.room.ideas[i].details[j].id = r.newId

C38_OwnRoomOnly ==
    \A c \in ChanIds :
        LET ch == chans[c]
        IN /\ \A i \in 1..Len(ch.events) :
                 /\ ch.events[i].type \in {"init", "update"}
                       => /\ ch.events[i].room.id = ch.oid
                          /\ ch.events[i].room.code = ch.code
                 /\ ch.events[i].type # "init"
                       => oplog[ch.events[i].at].oid = ch.oid
           /\ \A i \in 1..Len(ch.inbox) : oplog[ch.inbox[i].at].oid = ch.oid

\* C38: every snapshot on a channel is one of the channel's own room, and
\* every event and every notification waiting for the handler stems from a
\* change of that room: creations, joins and deletions of another room put
\* nothing on the channel.
C38_RoomsIsolated == []C38_OwnRoomOnly

\* a channel of one room is through a feed that holds a join of another room
\* committed after the channel started watching, and it has reported its own
\* room's join
C38_Witness ==
    \E c \in ChanIds :
        LET ch == chans[c]
        IN /\ ch.st = "watching"
           /\ ch.pos > Len(oplog) /\ ch.inbox = <<>>
           /\ \E k \in ch.since..Len(oplog) :
                 oplog[k].oid # ch.oid /\ oplog[k].type = "update"
           /\ \E i \in 1..Len(ch.events) : ch.events[i].type = "update"

\* the ids a room document shows: its participants, and the authors and
\* voters of its ideas and details
UsedIds(d) ==
    ParticipantIds(d)
    \cup {d.ideas[i].authorId : i \in 1..Len(d.ideas)}
    \cup UNION {SeqToSet(d.ideas[i].votes) : i \in 1..Len(d.ideas)}
    \cup UNION {{d.ideas[i].details[j].authorId : j \in 1..Len(d.ideas[i].details)} :
                   i \in 1..Len(d.ideas)}

IdeasBy(d, id) == Cardinality({i \in 1..Len(d.ideas) : d.ideas[i].authorId = id})

\* a join for a name no participant has is taken up with an id the room has
\* never shown and that was never handed out
C39_JoinTakenUp ==
    \A s \in Slots : \A d \in rooms :
        (/\ Accepted(s, "join") /\ d.code = reqs'[s].code
         /\ \A i \in 1..Len(d.participants) :
               FoldCase(d.participants[i].name) # FoldCase(reqs'[s].name))
        => /\ reqs'[s].pc = "update"
           /\ reqs'[s].newId \notin UsedIds(d)
           /\ reqs'[s].newId \notin 1..(nextId - 1)
           /\ \A t \in Slots : t # s => reqs[t].newId # reqs'[s].newId

\* the write of a join appends one participant with the request's id and
\* name and the role participant
C39_JoinAppends ==
    \A s \in Slots : \A d \in rooms :
        (/\ reqs[s].op = "join" /\ reqs[s].pc = "update" /\ reqs'[s].pc = "done"
         /\ d.oid = reqs[s].room.oid)
        => \E e \in rooms' :
              /\ e.oid = d.oid
              /\ e.participants = Append(d.participants,
                    [id |-> reqs[s].newId, name |-> reqs[s].name, role |-> "participant"])

\* an id that was handed out, is no member and is not carried by a join in
\* flight does not become a member
C39_GoneStaysGone ==
    \A d \in rooms : \A e \in rooms' : \A id \in 1..(nextId - 1) :
        (/\ e.oid = d.oid
         /\ id \notin ParticipantIds(d)
         /\ \A s \in Slots : ~(reqs[s].op = "join" /\ reqs[s].pc = "update"
                                /\ reqs[s].newId = id))
        => /\ id \notin ParticipantIds(e)
           /\ \A s \in Slots : ~(reqs'[s].op = "join" /\ reqs'[s].pc = "update"
                                  /\ reqs'[s].newId = id)

\* an idea of a member is taken up whenever fewer than three ideas carry the
\* member's own id, whatever other ideas carry the member's name
C39_QuotaById ==
    \A s \in Slots : \A d \in rooms :
        (/\ Accepted(s, "idea") /\ d.code = reqs'[s].code
         /\ reqs'[s].pid \in ParticipantIds(d)
         /\ d.phase # "ended"
         /\ IdeasBy(d, reqs'[s].pid) < IdeaQuota)
        => reqs'[s].pc = "update"

\* C39: a join under a name that no current participant has (such as the
\* name of a removed participant) is taken up with a fresh id and appends
\* one participant with the role participant; an id that has left the
\* participants never enters them again; and an idea request is measured
\* against the ideas that carry the requester's own id only.
C39_RejoinIsNewIdentity ==
    [][C39_JoinTakenUp /\ C39_JoinAppends /\ C39_GoneStaysGone /\ C39_QuotaById]_vars

\* Sam wrote an idea, was removed and joined again: the room lists Sam under
\* a new id with the role participant, the idea still carries the old id,
\* and no idea carries the new one
C39_Witness ==
    \E s \in Slots : \E d \in rooms : \E i \in 1..Len(d.ideas) : \E k \in 1..Len(d.participants) :
        /\ reqs[s].op = "join" /\ reqs[s].pc = "done"
        /\ reqs[s].res.message = "Joined room successfully"
        /\ d.oid = reqs[s].room.oid
        /\ d.ideas[i].authorName = reqs[s].name
        /\ d.ideas[i].authorId \notin ParticipantIds(d)
        /\ d.ideas[i].authorId < reqs[s].newId
        /\ d.participants[k].id = reqs[s].newId
        /\ d.participants[k].role = "participant"
        /\ IdeasBy(d, reqs[s].newId) = 0

C40_NoticeStep ==
    \A c \in ChanIds :
        LET cl == chans[c]
            payload == cl.events[cl.seen + 1]
        IN (cl.es = "open" /\ cl.seen < Len(cl.events) /\ chans'[c].seen = cl.seen + 1)
           => /\ payload.type = "closed"
                    => /\ chans'[c].notice = "Room ended"
                       /\ chans'[c].es = "closed"
                       /\ chans'[c].shown = cl.shown
              /\ (/\ payload.type \in {"init", "update"}
                  /\ cl.pid \notin ParticipantIds(payload.room))
                    => /\ chans'[c].notice = "Removed from room"
                       /\ chans'[c].es = "closed"
                       /\ chans'[c].shown = cl.shown

C40_AfterNoticeStep ==
    \A c \in ChanIds :
        chans[c].notice # ""
        => /\ chans'[c].shown = chans[c].shown
           /\ chans'[c].seen = chans[c].seen
           /\ chans'[c].notice = chans[c].notice
           /\ chans'[c].es = "closed"

C40_NoticeClosesForGood ==
    \A c \in ChanIds :
        chans[c].notice # ""
        => /\ chans[c].es = "closed"
           /\ \A d \in ChanIds : d > c => chans[d].es = "none"
           /\ chans[c].shown # NoRoom => chans[c].pid \in ParticipantIds(chans[c].shown)

\* C40: when the page's handler receives a closed event, or a snapshot that
\* does not list the session's participant, it sets the notice, closes the
\* EventSource and leaves the displayed room as it was; from then on the
\* EventSource stays closed, no new one is opened, no further event is
\* handled and the displayed room does not change.
C40_ClientStopsAtNotice ==
    /\ []C40_NoticeClosesForGood
    /\ [][C40_NoticeStep /\ C40_AfterNoticeStep]_vars

\* the page shows its room and the removal notice, its EventSource is
\* closed, and the server has written a later snapshot that the page has
\* not taken
C40_Witness ==
    \E c \in ChanIds :
        LET cl == chans[c]
        IN /\ cl.notice = "Removed from room"
           /\ cl.es = "closed"
           /\ cl.shown # NoRoom
           /\ cl.seen < Len(cl.events)
           /\ Last(cl.events).type = "update"
           /\ Last(cl.events).room # cl.events[cl.seen].room

====
